---- MODULE Spec2Model ----
(***************************************************************************)
(* A model of the mongory-core matcher layer (cgo/binding/src): the value  *)
(* substrate the matchers read (value.c, table.c, array.c, utils.c), the   *)
(* query compiler (composite_matcher.c, literal_matcher.c,                 *)
(* array_record_matcher.c), evaluation with the lazily built array_record  *)
(* child, and the tracer of matcher.c.                                     *)
(***************************************************************************)
EXTENDS Integers, Sequences, FiniteSets, TLC

(***************************************************************************)
(* Bounds of the model.                                                    *)
(***************************************************************************)
\* Int values of records and conditions are 1..MaxInt.
MaxInt == 2
\* Flat arrays of records have at most MaxLen elements.
MaxLen == 2

(***************************************************************************)
(* C strings.  A string is named by a TLA+ string; Chars gives its bytes,  *)
(* which is what strcmp, strtol and hash_string read.                      *)
(***************************************************************************)
Strings ==
  {"", "a", "b", "f", "g", "0", "1", "2", "-1", "-2", "-3", "+1", "1x",
   "-2147483648", "$eq", "$ne", "$gt", "$gte", "$lt", "$lte", "$in", "$nin",
   "$exists", "$present", "$regex", "$and", "$or", "$elemMatch", "$every",
   "$not", "$size", "$foo"}

Chars ==
  [s \in Strings |->
    CASE s = "" -> <<>>
      [] s = "a" -> <<97>>
      [] s = "b" -> <<98>>
      [] s = "f" -> <<102>>
      [] s = "g" -> <<103>>
      [] s = "0" -> <<48>>
      [] s = "1" -> <<49>>
      [] s = "2" -> <<50>>
      [] s = "-1" -> <<45, 49>>
      [] s = "-2" -> <<45, 50>>
      [] s = "-3" -> <<45, 51>>
      [] s = "+1" -> <<43, 49>>
      [] s = "1x" -> <<49, 120>>
      [] s = "-2147483648" -> <<45, 50, 49, 52, 55, 52, 56, 51, 54, 52, 56>>
      [] s = "$eq" -> <<36, 101, 113>>
      [] s = "$ne" -> <<36, 110, 101>>
      [] s = "$gt" -> <<36, 103, 116>>
      [] s = "$gte" -> <<36, 103, 116, 101>>
      [] s = "$lt" -> <<36, 108, 116>>
      [] s = "$lte" -> <<36, 108, 116, 101>>
      [] s = "$in" -> <<36, 105, 110>>
      [] s = "$nin" -> <<36, 110, 105, 110>>
      [] s = "$exists" -> <<36, 101, 120, 105, 115, 116, 115>>
      [] s = "$present" -> <<36, 112, 114, 101, 115, 101, 110, 116>>
      [] s = "$regex" -> <<36, 114, 101, 103, 101, 120>>
      [] s = "$and" -> <<36, 97, 110, 100>>
      [] s = "$or" -> <<36, 111, 114>>
      [] s = "$elemMatch" -> <<36, 101, 108, 101, 109, 77, 97, 116, 99, 104>>
      [] s = "$every" -> <<36, 101, 118, 101, 114, 121>>
      [] s = "$not" -> <<36, 110, 111, 116>>
      [] s = "$size" -> <<36, 115, 105, 122, 101>>
      [] s = "$foo" -> <<36, 102, 111, 111>>]

\* The sign of strcmp(a, b) on the bytes of two strings.
RECURSIVE strcmp_chars(_, _)
strcmp_chars(a, b) ==
  IF a = <<>> /\ b = <<>> THEN 0
  ELSE IF a = <<>> THEN -1
  ELSE IF b = <<>> THEN 1
  ELSE IF Head(a) < Head(b) THEN -1
  ELSE IF Head(a) > Head(b) THEN 1
  ELSE strcmp_chars(Tail(a), Tail(b))

strcmp(a, b) == strcmp_chars(Chars[a], Chars[b])

\* *key == '$'
starts_with_dollar(cs) == cs # <<>> /\ Head(cs) = 36

IsOperatorKey(key) == starts_with_dollar(Chars[key])

(***************************************************************************)
(* utils.c: mongory_try_parse_int.  strtol in base 10: an optional sign,   *)
(* then digits; the whole string must be consumed and the value must fit   *)
(* an int.  None of the strings of the model starts with white space.      *)
(***************************************************************************)
INT_MAX == 2147483647
INT_MIN == (-2147483647) - 1

IsDigit(c) == c >= 48 /\ c <= 57

\* The digits read so far as a value of the sign's side; "range" once the value
\* leaves the range of an int (strtol goes on in a long, the caller rejects it).
RECURSIVE strtol_digits(_, _, _)
strtol_digits(cs, neg, acc) ==
  IF cs = <<>> \/ ~IsDigit(Head(cs)) THEN [val |-> acc, rest |-> cs, range |-> FALSE]
  ELSE LET d == Head(cs) - 48 IN
       IF neg
       THEN IF acc < -214748364 \/ (acc = -214748364 /\ d > 8)
            THEN [val |-> 0, rest |-> <<>>, range |-> TRUE]
            ELSE strtol_digits(Tail(cs), neg, acc * 10 - d)
       ELSE IF acc > 214748364 \/ (acc = 214748364 /\ d > 7)
            THEN [val |-> 0, rest |-> <<>>, range |-> TRUE]
            ELSE strtol_digits(Tail(cs), neg, acc * 10 + d)

\* [ok, val]: whether key parses as an int and the int.  out_is_null is the
\* caller passing NULL for the out parameter.
NotParsed == [ok |-> FALSE, val |-> 0]

\* After strtol has returned r: ERANGE, a value outside int, or characters
\* left over (*endptr != 0) refuse the key.
ParseEnd(r) ==
  IF r.range THEN NotParsed
  ELSE IF r.rest # <<>> THEN NotParsed
  ELSE [ok |-> TRUE, val |-> r.val]

\* strtol on the characters after the sign: without a digit endptr == key.
ParseDigits(neg, body) ==
  IF body = <<>> \/ ~IsDigit(Head(body)) THEN NotParsed
  ELSE ParseEnd(strtol_digits(body, neg, 0))

ParseChars(cs, out_is_null) ==
  IF cs = <<>> THEN NotParsed
  ELSE IF out_is_null THEN NotParsed
  ELSE ParseDigits(Head(cs) = 45, IF Head(cs) \in {43, 45} THEN Tail(cs) ELSE cs)

mongory_try_parse_int(key, out_is_null) == ParseChars(Chars[key], out_is_null)

(***************************************************************************)
(* table.c: hash_string (djb2 in a 64-bit size_t, kept as four 16-bit      *)
(* limbs, least significant first) and the bucket a key falls in.          *)
(***************************************************************************)
MONGORY_TABLE_INIT_SIZE == 17
Limb == 65536

hash_step(h, c) ==
  LET t0 == h[1] * 33 + c
      t1 == h[2] * 33 + (t0 \div Limb)
      t2 == h[3] * 33 + (t1 \div Limb)
      t3 == h[4] * 33 + (t2 \div Limb)
  IN  <<t0 % Limb, t1 % Limb, t2 % Limb, t3 % Limb>>

RECURSIVE hash_chars(_, _)
hash_chars(h, cs) ==
  IF cs = <<>> THEN h ELSE hash_chars(hash_step(h, Head(cs)), Tail(cs))

\* hash_string(key) % capacity
\* The four limbs h modulo capacity, from the most significant limb down.
limbs_mod(h, capacity) ==
  ((((((h[4] % capacity) * Limb + h[3]) % capacity) * Limb + h[2]) % capacity)
      * Limb + h[1]) % capacity

hash_string == [key \in Strings |-> hash_chars(<<5381, 0, 0, 0>>, Chars[key])]

hash_string_mod(key, capacity) == limbs_mod(hash_string[key], capacity)

Bucket == [k \in Strings |-> hash_string_mod(k, MONGORY_TABLE_INIT_SIZE)]

(***************************************************************************)
(* value.h: the tagged value.  NoValue is the NULL pointer (a missing      *)
(* field).  A table is kept as its pairs in the order table->each visits   *)
(* them: buckets by index, and within a bucket the newest key first.  The  *)
(* tables of the model stay under the 13 entries that trigger a rehash.    *)
(***************************************************************************)
NoValue == [type |-> "NULLPTR"]
VNull == [type |-> "Null"]
VBool(b) == [type |-> "Bool", b |-> b]
VInt(i) == [type |-> "Int", i |-> i]
VStr(s) == [type |-> "String", s |-> s]
VArr(items) == [type |-> "Array", a |-> items]
VTab(pairs) == [type |-> "Table", t |-> pairs]
VRegex == [type |-> "Regex"]

mongory_value_compare_fail == 97

\* The index of key in the pairs of a table, 0 when it is absent.
RECURSIVE table_index(_, _, _)
table_index(pairs, key, i) ==
  IF i > Len(pairs) THEN 0
  ELSE IF pairs[i][1] = key THEN i
  ELSE table_index(pairs, key, i + 1)

value_at(pairs, i) == IF i = 0 THEN NoValue ELSE pairs[i][2]

mongory_table_get(pairs, key) == value_at(pairs, table_index(pairs, key, 1))

\* The number of pairs that each visits before the head of key's bucket.
RECURSIVE bucket_start(_, _, _)
bucket_start(pairs, b, i) ==
  IF i > Len(pairs) THEN Len(pairs)
  ELSE IF Bucket[pairs[i][1]] >= b THEN i - 1
  ELSE bucket_start(pairs, b, i + 1)

\* The pair replaces the one at i when the key is there (i # 0), and
\* otherwise becomes the head of its bucket, after the n pairs before it.
set_at(pairs, key, value, i, n) ==
  IF i # 0 THEN [pairs EXCEPT ![i] = <<key, value>>]
  ELSE SubSeq(pairs, 1, n) \o <<(<<key, value>>)>> \o SubSeq(pairs, n + 1, Len(pairs))

mongory_table_set(pairs, key, value) ==
  set_at(pairs, key, value, table_index(pairs, key, 1),
         bucket_start(pairs, Bucket[key], 1))

\* mongory_table_nested_wrap: the table built by setting args in order.
RECURSIVE mongory_table_nested_wrap(_, _)
mongory_table_nested_wrap(acc, args) ==
  IF args = <<>> THEN acc
  ELSE mongory_table_nested_wrap(mongory_table_set(acc, args[1][1], args[1][2]), Tail(args))

MG_TABLE_WRAP(args) == VTab(mongory_table_nested_wrap(<<>>, args))

\* mongory_table_merge: every pair of other, in each order, set into table.
mongory_table_merge(table, other) == mongory_table_nested_wrap(table, other)

(***************************************************************************)
(* table.c, array.c: the table as it lies in memory.  A table is           *)
(* [capacity, count, items, ub]: items are the slots 0..array->count - 1   *)
(* of the bucket array, each the chain of <<key, value>> nodes from its    *)
(* head on; a slot the array has not counted yet has never been written.   *)
(* ub is set once a rehash has followed a pointer it read from such a slot.*)
(***************************************************************************)
RECURSIVE IsPrimeFrom(_, _)
IsPrimeFrom(n, i) ==
  IF i * i > n THEN TRUE
  ELSE IF n % i = 0 THEN FALSE
  ELSE IsPrimeFrom(n, i + 2)

RECURSIVE NextOddPrime(_)
NextOddPrime(n) == IF IsPrimeFrom(n, 3) THEN n ELSE NextOddPrime(n + 2)

next_prime(n) ==
  IF n <= 2 THEN 2 ELSE NextOddPrime(IF n % 2 = 0 THEN n + 1 ELSE n)

\* count > capacity * MONGORY_TABLE_LOAD_FACTOR, the factor being 0.75.
ExceedsLoadFactor(count, capacity) == 4 * count > 3 * capacity

\* array->get: NULL (the empty chain) at an index the array has not counted.
mongory_array_get(items, index) ==
  IF index >= Len(items) THEN <<>> ELSE items[index + 1]

\* array->set: the slots from count up to index are filled with NULL.
NullSlots(n) ==
  LET Null1 == << <<>> >>
      Null4 == Null1 \o Null1 \o Null1 \o Null1
      Null16 == Null4 \o Null4 \o Null4 \o Null4
      Null64 == Null16 \o Null16 \o Null16 \o Null16
  IN  SubSeq(Null64 \o Null64 \o Null64, 1, n)

mongory_array_set(items, index, value) ==
  IF index >= Len(items)
  THEN Append(items \o NullSlots(index - Len(items)), value)
  ELSE [items EXCEPT ![index + 1] = value]

\* mongory_table_new: the seventeen buckets are set to NULL.
mongory_table_new ==
  [capacity |-> MONGORY_TABLE_INIT_SIZE, count |-> 0, ub |-> FALSE,
   items |-> mongory_array_set(<<>>, MONGORY_TABLE_INIT_SIZE - 1, <<>>)]

table_get(t, key) ==
  value_at(mongory_array_get(t.items, hash_string_mod(key, t.capacity)),
           table_index(mongory_array_get(t.items, hash_string_mod(key, t.capacity)), key, 1))

\* mongory_table_rehash_on_node: the node becomes the head of its new bucket.
mongory_table_rehash_on_node(items, capacity, node) ==
  mongory_array_set(items, hash_string_mod(node[1], capacity),
                    <<node>> \o mongory_array_get(items, hash_string_mod(node[1], capacity)))

\* The nodes the walk of the old buckets comes to from bucket i on, in the
\* order in which it comes to them.
RECURSIVE WalkedNodes(_, _)
WalkedNodes(old, i) ==
  IF i > Len(old) THEN <<>> ELSE old[i] \o WalkedNodes(old, i + 1)

\* The new buckets once the first k of the nodes have been moved, each to the
\* head of its bucket.
RECURSIVE RehashFrom(_, _, _)
RehashFrom(nodes, k, capacity) ==
  IF k = 0 THEN <<>>
  ELSE mongory_table_rehash_on_node(RehashFrom(nodes, k - 1, capacity), capacity, nodes[k])

Rehashed(nodes, capacity) == RehashFrom(nodes, Len(nodes), capacity)

\* mongory_table_rehash walks original_items_ptr[0 .. original_capacity - 1].
\* The slots the old array had not counted were never written: they hold
\* NULL in memory that calloc has just returned; in memory the pool hands
\* out again after a reset they hold what was there, and garbage says
\* whether that is a pointer the walk follows.
mongory_table_rehash_dropping_chains(t, garbage) ==
  [capacity |-> next_prime(t.capacity * 2), count |-> t.count,
   ub |-> t.ub \/ (garbage /\ Len(t.items) < t.capacity),
   items |-> <<>>]

mongory_table_rehash(t, garbage) ==
  [capacity |-> next_prime(t.capacity * 2), count |-> t.count,
   ub |-> t.ub \/ (garbage /\ Len(t.items) < t.capacity),
   items |-> Rehashed(WalkedNodes(t.items, 1), next_prime(t.capacity * 2))]

RehashIfLoaded(t, garbage) ==
  IF ExceedsLoadFactor(t.count, t.capacity) THEN mongory_table_rehash(t, garbage) ELSE t

\* The key is at node i of the chain head of bucket index, or nowhere (i = 0).
TableSetAt(t, key, value, index, head, i, garbage) ==
  IF i # 0
  THEN [t EXCEPT !.items = mongory_array_set(t.items, index,
                                              [head EXCEPT ![i] = <<key, value>>])]
  ELSE RehashIfLoaded(
         [t EXCEPT !.items = mongory_array_set(t.items, index, <<(<<key, value>>)>> \o head),
                   !.count = t.count + 1], garbage)

table_set(t, key, value, garbage) ==
  TableSetAt(t, key, value, hash_string_mod(key, t.capacity),
             mongory_array_get(t.items, hash_string_mod(key, t.capacity)),
             table_index(mongory_array_get(t.items, hash_string_mod(key, t.capacity)), key, 1),
             garbage)

\* The chain without its node i.
Unlinked(head, i) == SubSeq(head, 1, i - 1) \o SubSeq(head, i + 1, Len(head))

TableDelAt(t, index, head, i) ==
  IF i = 0 THEN [ok |-> FALSE, t |-> t]
  ELSE [ok |-> TRUE,
        t |-> [t EXCEPT !.items = mongory_array_set(t.items, index, Unlinked(head, i)),
                        !.count = t.count - 1]]

table_del(t, key) ==
  TableDelAt(t, hash_string_mod(key, t.capacity),
             mongory_array_get(t.items, hash_string_mod(key, t.capacity)),
             table_index(mongory_array_get(t.items, hash_string_mod(key, t.capacity)), key, 1))

(***************************************************************************)
(* value.c: the comp function of each variant, called as a->comp(a, b).    *)
(***************************************************************************)
Sign(x, y) == IF x > y THEN 1 ELSE IF x < y THEN -1 ELSE 0

BoolNum(b) == IF b THEN 1 ELSE 0

RECURSIVE mongory_value_compare(_, _)
RECURSIVE mongory_value_array_compare_from(_, _, _)

mongory_value_array_compare_from(x, y, i) ==
  IF i > Len(x) THEN 0
  ELSE LET a_null == x[i].type \in {"NULLPTR", "Null"}
           b_null == y[i].type \in {"NULLPTR", "Null"}
       IN  IF a_null /\ b_null THEN mongory_value_array_compare_from(x, y, i + 1)
           ELSE IF a_null THEN -1
           ELSE IF b_null THEN 1
           ELSE LET c == mongory_value_compare(x[i], y[i])
                IN  IF c = mongory_value_compare_fail THEN mongory_value_compare_fail
                    ELSE IF c # 0 THEN c
                    ELSE mongory_value_array_compare_from(x, y, i + 1)

mongory_value_compare(a, b) ==
  CASE a.type = "Null" ->
         IF b.type # "Null" THEN mongory_value_compare_fail ELSE 0
    [] a.type = "Bool" ->
         IF b.type # "Bool" THEN mongory_value_compare_fail
         ELSE Sign(BoolNum(a.b), BoolNum(b.b))
    [] a.type = "Int" ->
         IF b.type = "Int" THEN Sign(a.i, b.i) ELSE mongory_value_compare_fail
    [] a.type = "String" ->
         IF b.type # "String" THEN mongory_value_compare_fail ELSE strcmp(a.s, b.s)
    [] a.type = "Array" ->
         IF b.type # "Array" THEN mongory_value_compare_fail
         ELSE IF Len(a.a) # Len(b.a) THEN Sign(Len(a.a), Len(b.a))
         ELSE mongory_value_array_compare_from(a.a, b.a, 1)
    [] OTHER -> mongory_value_compare_fail

(***************************************************************************)
(* array.c: mongory_array_sort_by, a top-down merge sort.  When the keys   *)
(* of the two heads are equal the merge takes the head of the right half.  *)
(***************************************************************************)
merge_sort_finalize_appending(left, right, key) == left \o right

RECURSIVE mongory_array_merge_sort_finalize(_, _, _)
mongory_array_merge_sort_finalize(left, right, key) ==
  IF left = <<>> THEN right
  ELSE IF right = <<>> THEN left
  ELSE IF key[Head(left)] < key[Head(right)]
       THEN <<Head(left)>> \o mongory_array_merge_sort_finalize(Tail(left), right, key)
       ELSE <<Head(right)>> \o mongory_array_merge_sort_finalize(left, Tail(right), key)

\* Sorts a sequence of indices into key; the caller maps them back to items.
RECURSIVE mongory_array_merge_sort(_, _)
mongory_array_merge_sort(items, key) ==
  IF Len(items) <= 1 THEN items
  ELSE LET mid == Len(items) \div 2
           left == mongory_array_merge_sort(SubSeq(items, 1, mid), key)
           right == mongory_array_merge_sort(SubSeq(items, mid + 1, Len(items)), key)
       IN  mongory_array_merge_sort_finalize(left, right, key)

(***************************************************************************)
(* base_matcher.h: a matcher node.  match, original_match and traverse     *)
(* hold the name of the function the pointer points to.  trace_stack is 0  *)
(* (NULL) or the number of the trace whose array it points to.  A node is  *)
(* allocated from a pool that was never reset, so the fields its           *)
(* constructor leaves alone (trace_stack, trace_level) are zero.           *)
(***************************************************************************)
NoMatcher == [name |-> "NULL"]

MONGORY_ERROR_INVALID_ARGUMENT == "MONGORY_ERROR_INVALID_ARGUMENT"
MONGORY_ERROR_INVALID_TYPE == "MONGORY_ERROR_INVALID_TYPE"

\* pool->error: the mongory_error it points to, by its type and its message,
\* and NoError when it is NULL.
mongory_error(type, message) == [type |-> type, message |-> message]
NoError == mongory_error("NULL", "")
\* Not an error of the library: the constructors have recursed without end and
\* the process has died of it.  Nothing that follows in the call is observed.
StackOverflow == mongory_error("STACK_OVERFLOW", "")

\* pool->error = e
SetError(err, e) == IF err = StackOverflow THEN err ELSE e

\* matcher->priority is kept in the unit mongory_matcher_calc_priority sorts by.
PriorityScale == 10000

mongory_matcher_base_new(condition) ==
  [name |-> "", match |-> "NULL", original_match |-> "NULL",
   traverse |-> "leaf_traverse", condition |-> condition,
   priority |-> 1 * PriorityScale, trace_stack |-> 0, trace_level |-> 0,
   sub_count |-> 0, children |-> <<>>, delegate_matcher |-> NoMatcher,
   array_record_matcher |-> NoMatcher, field |-> ""]

\* The result of a constructor: the node (NoMatcher for NULL) and pool->error.
Built(m, err) == [m |-> m, err |-> err]
Failed(err) == [m |-> NoMatcher, err |-> err]

mongory_matcher_always_true_new(condition) ==
  [mongory_matcher_base_new(condition) EXCEPT
     !.match = "always_true_match", !.original_match = "always_true_match",
     !.name = "Always True"]

mongory_matcher_always_false_new(condition) ==
  [mongory_matcher_base_new(condition) EXCEPT
     !.match = "always_false_match", !.original_match = "always_false_match",
     !.name = "Always False"]

mongory_matcher_composite_new(condition) ==
  [mongory_matcher_base_new(condition) EXCEPT
     !.traverse = "composite_traverse", !.priority = 2 * PriorityScale]

\* A validator that does not look at the error the pool holds.
validate_table_ignoring_error(err, value) ==
  IF value.type = "NULLPTR"
  THEN [ok |-> FALSE, err |-> mongory_error(MONGORY_ERROR_INVALID_ARGUMENT, "Null pointer")]
  ELSE IF value.type # "Table"
  THEN [ok |-> FALSE, err |-> mongory_error(MONGORY_ERROR_INVALID_ARGUMENT, "needs Table")]
  ELSE [ok |-> TRUE, err |-> err]

\* utils.c: the validators refuse everything once the pool holds an error.
mongory_validate_table(err, value) ==
  IF err # NoError THEN [ok |-> FALSE, err |-> err]
  ELSE IF value.type = "NULLPTR"
  THEN [ok |-> FALSE, err |-> mongory_error(MONGORY_ERROR_INVALID_ARGUMENT, "Null pointer")]
  ELSE IF value.type # "Table"
  THEN [ok |-> FALSE, err |-> mongory_error(MONGORY_ERROR_INVALID_ARGUMENT, "needs Table")]
  ELSE [ok |-> TRUE, err |-> err]

mongory_validate_array(err, value) ==
  IF err # NoError THEN [ok |-> FALSE, err |-> err]
  ELSE IF value.type = "NULLPTR"
  THEN [ok |-> FALSE, err |-> mongory_error(MONGORY_ERROR_INVALID_ARGUMENT, "Null pointer")]
  ELSE IF value.type # "Array"
  THEN [ok |-> FALSE, err |-> mongory_error(MONGORY_ERROR_INVALID_ARGUMENT, "needs Array")]
  ELSE [ok |-> TRUE, err |-> err]

(***************************************************************************)
(* compare_matcher.c, existance_matcher.c, inclusion_matcher.c,            *)
(* external_matcher.c: the leaf constructors.                              *)
(***************************************************************************)
mongory_matcher_compare_new(condition, match_func) ==
  [mongory_matcher_base_new(condition) EXCEPT
     !.match = match_func, !.original_match = match_func]

mongory_matcher_equal_new(condition, err) ==
  Built([mongory_matcher_compare_new(condition, "equal_match") EXCEPT
           !.name = "Eq", !.priority = 1 * PriorityScale], err)

mongory_matcher_not_equal_new(condition, err) ==
  Built([mongory_matcher_compare_new(condition, "not_equal_match") EXCEPT
           !.name = "Ne", !.priority = 1 * PriorityScale], err)

mongory_matcher_greater_than_new(condition, err) ==
  Built([mongory_matcher_compare_new(condition, "greater_than_match") EXCEPT
           !.name = "Gt", !.priority = 2 * PriorityScale], err)

mongory_matcher_less_than_new(condition, err) ==
  Built([mongory_matcher_compare_new(condition, "less_than_match") EXCEPT
           !.name = "Lt", !.priority = 2 * PriorityScale], err)

mongory_matcher_greater_than_or_equal_new(condition, err) ==
  Built([mongory_matcher_compare_new(condition, "greater_than_or_equal_match") EXCEPT
           !.name = "Gte", !.priority = 2 * PriorityScale], err)

mongory_matcher_less_than_or_equal_new(condition, err) ==
  Built([mongory_matcher_compare_new(condition, "less_than_or_equal_match") EXCEPT
           !.name = "Lte", !.priority = 2 * PriorityScale], err)

mongory_matcher_validate_bool_condition(condition) ==
  condition.type # "NULLPTR" /\ condition.type = "Bool"

mongory_matcher_exists_new(condition, err) ==
  IF ~mongory_matcher_validate_bool_condition(condition)
  THEN Failed(SetError(err, mongory_error(MONGORY_ERROR_INVALID_ARGUMENT,
                                          "$exists condition must be a boolean value.")))
  ELSE Built([mongory_matcher_base_new(condition) EXCEPT
                !.match = "exists_match", !.original_match = "exists_match",
                !.name = "Exists", !.priority = 2 * PriorityScale], err)

mongory_matcher_present_new(condition, err) ==
  IF ~mongory_matcher_validate_bool_condition(condition)
  THEN Failed(SetError(err, mongory_error(MONGORY_ERROR_INVALID_ARGUMENT,
                                          "$present condition must be a boolean value.")))
  ELSE Built([mongory_matcher_base_new(condition) EXCEPT
                !.match = "present_match", !.original_match = "present_match",
                !.name = "Present", !.priority = 2 * PriorityScale], err)

mongory_matcher_validate_array_condition(condition) ==
  condition.type # "NULLPTR" /\ condition.type = "Array"

\* 1.0 + mongory_log(count + 1.0, 1.5) in the unit of priority, for the sizes
\* of the $in sets of the model (the logarithm is tabulated, rounded down).
InPriority(count) ==
  CASE count = 0 -> 10000
    [] count = 1 -> 27095
    [] count = 2 -> 37095
    [] count = 3 -> 44190
    [] OTHER -> 49693

mongory_matcher_in_new(condition, err) ==
  IF ~mongory_matcher_validate_array_condition(condition)
  THEN Failed(SetError(err, mongory_error(MONGORY_ERROR_INVALID_ARGUMENT,
                                          "$in condition must be a valid array.")))
  ELSE Built([mongory_matcher_base_new(condition) EXCEPT
                !.match = "in_match", !.original_match = "in_match",
                !.name = "In", !.priority = InPriority(Len(condition.a))], err)

mongory_matcher_not_in_new(condition, err) ==
  IF ~mongory_matcher_validate_array_condition(condition)
  THEN Failed(SetError(err, mongory_error(MONGORY_ERROR_INVALID_ARGUMENT,
                                          "$nin condition must be a valid array.")))
  ELSE Built([mongory_matcher_base_new(condition) EXCEPT
                !.match = "not_in_match", !.original_match = "not_in_match",
                !.name = "Nin", !.priority = InPriority(Len(condition.a))], err)

mongory_matcher_regex_condition_validate(condition) ==
  condition.type # "NULLPTR" /\ condition.type \in {"String", "Regex"}

mongory_matcher_regex_new(condition, err) ==
  IF ~mongory_matcher_regex_condition_validate(condition)
  THEN Failed(SetError(err, mongory_error(MONGORY_ERROR_INVALID_ARGUMENT,
                 "$regex condition must be a string or a regex object.")))
  ELSE Built([mongory_matcher_base_new(condition) EXCEPT
                !.match = "regex_match", !.original_match = "regex_match",
                !.name = "Regex", !.priority = 20 * PriorityScale], err)

\* g is the global configuration: g.mapping is mongory_matcher_mapping and
\* g.custom is mongory_custom_matcher_adapter.  The host's build callback
\* names the node after the key; the callback "host" builds of every
\* condition, the callback "strict" returns NULL for a Null condition.
mongory_matcher_custom_new(key, condition, err, g) ==
  IF g.custom.build = "NULL" THEN Failed(err)
  ELSE IF g.custom.build = "strict" /\ condition.type = "Null" THEN Failed(err)
  ELSE Built([mongory_matcher_base_new(condition) EXCEPT
                !.match = "custom_match", !.original_match = "custom_match",
                !.name = key, !.priority = 20 * PriorityScale], err)

(***************************************************************************)
(* config.c: the registry of built-in constructors.  A registered name     *)
(* maps to the constructor mongory_init registers it with.                 *)
(***************************************************************************)
BuiltinNames ==
  {"$in", "$nin", "$eq", "$ne", "$gt", "$gte", "$lt", "$lte", "$exists",
   "$present", "$regex", "$and", "$or", "$elemMatch", "$every", "$not", "$size"}

NullMapping == [init |-> FALSE, names |-> {}]

\* The name of the registered constructor, "NULL" when there is none.
mongory_matcher_build_func_get(name, g) ==
  IF ~g.mapping.init THEN "NULL"
  ELSE IF name \notin g.mapping.names THEN "NULL"
  ELSE name

(***************************************************************************)
(* composite_matcher.c, literal_matcher.c, array_record_matcher.c: the     *)
(* compiler.  Every constructor takes pool->error as err and returns the   *)
(* node together with the pool->error it leaves.                           *)
(***************************************************************************)
mongory_matcher_calculate_priority(sub_matchers) ==
  LET RECURSIVE Sum(_)
      Sum(i) == IF i = 0 THEN 0 ELSE sub_matchers[i].priority + Sum(i - 1)
  IN  Sum(Len(sub_matchers))

mongory_matcher_calc_priority(matcher) == matcher.priority

mongory_matcher_sort_matchers(sub_matchers) ==
  LET key == [i \in 1..Len(sub_matchers) |-> mongory_matcher_calc_priority(sub_matchers[i])]
      order == mongory_array_merge_sort([i \in 1..Len(sub_matchers) |-> i], key)
  IN  [i \in 1..Len(sub_matchers) |-> sub_matchers[order[i]]]

\* The composite node the constructors finish with.
CompositeOf(condition, sub_matchers, match_func, name, base_priority) ==
  [mongory_matcher_composite_new(condition) EXCEPT
     !.children = mongory_matcher_sort_matchers(sub_matchers),
     !.sub_count = Len(sub_matchers),
     !.match = match_func, !.original_match = match_func, !.name = name,
     !.priority = base_priority * PriorityScale
                  + mongory_matcher_calculate_priority(sub_matchers)]

RECURSIVE mongory_matcher_table_cond_new(_, _, _)
RECURSIVE mongory_matcher_build_sub_matcher(_, _, _, _)
RECURSIVE mongory_table_each_build(_, _, _, _)
RECURSIVE mongory_matcher_table_build_sub_matcher(_, _, _, _)
RECURSIVE mongory_matcher_and_new(_, _, _)
RECURSIVE mongory_matcher_or_new(_, _, _)
RECURSIVE mongory_matcher_elem_match_new(_, _, _)
RECURSIVE mongory_matcher_every_new(_, _, _)
RECURSIVE mongory_matcher_literal_delegate(_, _, _)
RECURSIVE mongory_matcher_field_new(_, _, _, _)
RECURSIVE mongory_matcher_not_new(_, _, _)
RECURSIVE mongory_matcher_size_new(_, _, _)
RECURSIVE CallBuildFunc(_, _, _, _)

\* build_func(pool, value, extern_ctx): the call through the registered pointer.
CallBuildFunc(build_func, value, err, g) ==
  CASE build_func = "$in" -> mongory_matcher_in_new(value, err)
    [] build_func = "$nin" -> mongory_matcher_not_in_new(value, err)
    [] build_func = "$eq" -> mongory_matcher_equal_new(value, err)
    [] build_func = "$ne" -> mongory_matcher_not_equal_new(value, err)
    [] build_func = "$gt" -> mongory_matcher_greater_than_new(value, err)
    [] build_func = "$gte" -> mongory_matcher_greater_than_or_equal_new(value, err)
    [] build_func = "$lt" -> mongory_matcher_less_than_new(value, err)
    [] build_func = "$lte" -> mongory_matcher_less_than_or_equal_new(value, err)
    [] build_func = "$exists" -> mongory_matcher_exists_new(value, err)
    [] build_func = "$present" -> mongory_matcher_present_new(value, err)
    [] build_func = "$regex" -> mongory_matcher_regex_new(value, err)
    [] build_func = "$and" -> mongory_matcher_and_new(value, err, g)
    [] build_func = "$or" -> mongory_matcher_or_new(value, err, g)
    [] build_func = "$elemMatch" -> mongory_matcher_elem_match_new(value, err, g)
    [] build_func = "$every" -> mongory_matcher_every_new(value, err, g)
    [] build_func = "$not" -> mongory_matcher_not_new(value, err, g)
    [] build_func = "$size" -> mongory_matcher_size_new(value, err, g)

\* The choice of the constructor, given whether the key starts with '$' and
\* what the registry holds for it.
BuildBy(key, value, err, g, is_operator, build_func) ==
  IF is_operator /\ build_func # "NULL"
  THEN CallBuildFunc(build_func, value, err, g)
  ELSE IF is_operator /\ g.custom.lookup.set /\ key \in g.custom.lookup.keys
  THEN mongory_matcher_custom_new(key, value, err, g)
  ELSE mongory_matcher_field_new(key, value, err, g)

mongory_matcher_build_sub_matcher(key, value, err, g) ==
  BuildBy(key, value, err, g, IsOperatorKey(key), mongory_matcher_build_func_get(key, g))

\* table->each with mongory_matcher_table_build_sub_matcher: one sub-matcher per
\* pair, pushed on matchers; the walk stops at the first pair that builds none.
mongory_table_each_build(pairs, matchers, err, g) ==
  IF pairs = <<>> THEN [ok |-> TRUE, matchers |-> matchers, err |-> err]
  ELSE mongory_matcher_table_build_sub_matcher(
         Tail(pairs), matchers, g,
         mongory_matcher_build_sub_matcher(pairs[1][1], pairs[1][2], err, g))

\* The callback of the walk, given the sub-matcher built from the pair.
mongory_matcher_table_build_sub_matcher(rest, matchers, g, sub_matcher) ==
  IF sub_matcher.m = NoMatcher
  THEN [ok |-> FALSE, matchers |-> matchers, err |-> sub_matcher.err]
  ELSE mongory_table_each_build(rest, Append(matchers, sub_matcher.m), sub_matcher.err, g)

\* The end of the constructors of Condition, And and Or, given the
\* sub-matchers b built: the only one as it is, several under a composite.
CompositeFinish(condition, b, match_func, name) ==
  IF ~b.ok THEN Failed(b.err)
  ELSE IF Len(b.matchers) = 0
  THEN Built(mongory_matcher_always_true_new(condition), b.err)
  ELSE IF Len(b.matchers) = 1 THEN Built(b.matchers[1], b.err)
  ELSE Built(CompositeOf(condition, b.matchers, match_func, name, 2), b.err)

mongory_matcher_table_cond_new(table_condition, err, g) ==
  IF ~mongory_validate_table(err, table_condition).ok
  THEN Failed(mongory_validate_table(err, table_condition).err)
  ELSE IF Len(table_condition.t) = 0
  THEN Built(mongory_matcher_always_true_new(table_condition), err)
  ELSE CompositeFinish(table_condition,
                       mongory_table_each_build(table_condition.t, <<>>, err, g),
                       "and_match", "Condition")

\* mongory_matcher_build_and_sub_matcher: the pairs of one element of the array
\* are added to the matchers built so far.
mongory_matcher_build_and_sub_matcher(and_sub_condition, matchers, err, g) ==
  LET v == mongory_validate_table(err, and_sub_condition)
  IN  IF ~v.ok THEN [ok |-> FALSE, matchers |-> matchers, err |-> v.err]
      ELSE mongory_table_each_build(and_sub_condition.t, matchers, err, g)

\* The loop of mongory_matcher_and_new over the elements of the array.
RECURSIVE AndBuildAll(_, _, _, _)
RECURSIVE AndBuildNext(_, _, _)
AndBuildAll(tables, matchers, err, g) ==
  IF tables = <<>> THEN [ok |-> TRUE, matchers |-> matchers, err |-> err]
  ELSE AndBuildNext(Tail(tables), g,
                    mongory_matcher_build_and_sub_matcher(Head(tables), matchers, err, g))

AndBuildNext(rest, g, b) ==
  IF ~b.ok THEN b ELSE AndBuildAll(rest, b.matchers, b.err, g)

\* The maps of an $and merged into one, a later map overriding the keys of
\* an earlier one.
RECURSIVE MergedTables(_, _)
MergedTables(tables, acc) ==
  IF tables = <<>> THEN acc
  ELSE MergedTables(Tail(tables), mongory_table_merge(acc, Head(tables).t))

and_new_merging(and_condition, err, g) ==
  mongory_matcher_table_cond_new(VTab(MergedTables(and_condition.a, <<>>)), err, g)

mongory_matcher_and_new(and_condition, err, g) ==
  LET v == mongory_validate_array(err, and_condition)
      first == mongory_validate_table(err, and_condition.a[1])
  IN  IF ~v.ok THEN Failed(v.err)
      ELSE IF Len(and_condition.a) = 0
      THEN Built(mongory_matcher_always_true_new(and_condition), err)
      ELSE IF ~first.ok THEN Failed(first.err)
      ELSE CompositeFinish(and_condition, AndBuildAll(and_condition.a, <<>>, err, g),
                           "and_match", "And")

\* mongory_matcher_build_or_sub_matcher for each element: one matcher per table.
\* The loop of mongory_matcher_or_new over the elements of the array, and
\* mongory_matcher_build_or_sub_matcher given the matcher built of one element.
RECURSIVE OrBuildAll(_, _, _, _)
RECURSIVE mongory_matcher_build_or_sub_matcher(_, _, _, _)
OrBuildAll(tables, matchers, err, g) ==
  IF tables = <<>> THEN [ok |-> TRUE, matchers |-> matchers, err |-> err]
  ELSE mongory_matcher_build_or_sub_matcher(
         Tail(tables), matchers, g, mongory_matcher_table_cond_new(Head(tables), err, g))

mongory_matcher_build_or_sub_matcher(rest, matchers, g, table_level_matcher) ==
  IF table_level_matcher.m = NoMatcher
  THEN [ok |-> FALSE, matchers |-> matchers, err |-> table_level_matcher.err]
  ELSE OrBuildAll(rest, Append(matchers, table_level_matcher.m), table_level_matcher.err, g)

\* An $or whose maps are flattened as those of an $and are: one child per
\* entry of every map.
or_new_flattening(or_condition, err, g) ==
  CompositeFinish(or_condition, AndBuildAll(or_condition.a, <<>>, err, g),
                  "or_match", "Or")

\* Every element of a non-empty $or array builds one matcher, so the
\* sub-matchers are never none.
mongory_matcher_or_new(or_condition, err, g) ==
  LET v == mongory_validate_array(err, or_condition)
      first == mongory_validate_table(err, or_condition.a[1])
  IN  IF ~v.ok THEN Failed(v.err)
      ELSE IF Len(or_condition.a) = 0
      THEN Built(mongory_matcher_always_false_new(or_condition), err)
      ELSE IF ~first.ok THEN Failed(first.err)
      ELSE CompositeFinish(or_condition, OrBuildAll(or_condition.a, <<>>, err, g),
                           "or_match", "Or")

\* The end of the constructors of ElemMatch and Every, given the
\* sub-matchers b built: without any, the constant leaf when_empty.
ElementFinish(condition, b, match_func, name, when_empty) ==
  IF ~b.ok THEN Failed(b.err)
  ELSE IF Len(b.matchers) = 0 THEN Built(when_empty, b.err)
  ELSE Built(CompositeOf(condition, b.matchers, match_func, name, 3), b.err)

mongory_matcher_elem_match_new(elem_match_condition, err, g) ==
  IF ~mongory_validate_table(err, elem_match_condition).ok
  THEN Failed(mongory_validate_table(err, elem_match_condition).err)
  ELSE ElementFinish(elem_match_condition,
                     mongory_matcher_build_and_sub_matcher(elem_match_condition, <<>>, err, g),
                     "elem_match_match", "ElemMatch",
                     mongory_matcher_always_false_new(elem_match_condition))

mongory_matcher_every_new(every_condition, err, g) ==
  IF ~mongory_validate_table(err, every_condition).ok
  THEN Failed(mongory_validate_table(err, every_condition).err)
  ELSE ElementFinish(every_condition,
                     mongory_matcher_build_and_sub_matcher(every_condition, <<>>, err, g),
                     "every_match", "Every",
                     mongory_matcher_always_true_new(every_condition))

\* A Null condition that is {$eq: null} alone.
null_new_equal_only(err, g) == mongory_matcher_equal_new(VNull, err)

\* When the key $eq of the first table has neither a registered constructor
\* nor a custom one, mongory_matcher_build_sub_matcher makes a Field node of it,
\* whose Null condition comes back here: the recursion has no end.
mongory_matcher_null_new(err, g) ==
  IF mongory_matcher_build_func_get("$eq", g) = "NULL"
       /\ ~(g.custom.lookup.set /\ "$eq" \in g.custom.lookup.keys)
  THEN Failed(StackOverflow)
  ELSE mongory_matcher_or_new(
         VArr(<<MG_TABLE_WRAP(<< <<"$eq", VNull>> >>),
                MG_TABLE_WRAP(<< <<"$exists", VBool(FALSE)>> >>)>>), err, g)

mongory_matcher_literal_delegate(condition, err, g) ==
  CASE condition.type = "NULLPTR" -> mongory_matcher_equal_new(condition, err)
    [] condition.type = "Table" -> mongory_matcher_table_cond_new(condition, err, g)
    [] condition.type = "Regex" -> mongory_matcher_regex_new(condition, err)
    [] condition.type = "Null" -> mongory_matcher_null_new(err, g)
    [] OTHER -> mongory_matcher_equal_new(condition, err)

\* The node of the three Literal-wrappers, Field, Not and Size, given the
\* delegate d built: none when the delegate is none.
LiteralOf(condition, d, match_func, name, field) ==
  IF d.m = NoMatcher THEN Failed(d.err)
  ELSE Built([mongory_matcher_base_new(condition) EXCEPT
                !.match = match_func, !.original_match = match_func, !.name = name,
                !.traverse = "literal_traverse", !.delegate_matcher = d.m,
                !.sub_count = 1,
                !.field = field, !.priority = 1 * PriorityScale + d.m.priority],
             d.err)

mongory_matcher_field_new(field_name, condition_for_field, err, g) ==
  LiteralOf(condition_for_field,
            mongory_matcher_literal_delegate(condition_for_field, err, g),
            "field_match", "Field", field_name)

mongory_matcher_not_new(condition_to_negate, err, g) ==
  LiteralOf(condition_to_negate,
            mongory_matcher_literal_delegate(condition_to_negate, err, g),
            "not_match", "Not", "")

mongory_matcher_size_new(size_condition, err, g) ==
  LiteralOf(size_condition,
            mongory_matcher_literal_delegate(size_condition, err, g),
            "size_match", "Size", "")

\* matcher.c: mongory_matcher_new.
mongory_matcher_new(condition, err, g) == mongory_matcher_table_cond_new(condition, err, g)

(***************************************************************************)
(* array_record_matcher.c: the matcher a Literal-wrapper builds, the first *)
(* time it meets an Array record, from its own condition.                  *)
(***************************************************************************)
\* mongory_matcher_array_record_parse_table_foreach over the pairs of the
\* condition; ctx holds parsed_table and elem_match_table.
\* The callback on one pair of the condition.
ParseTablePair(ctx, key, value) ==
  IF strcmp(key, "$elemMatch") = 0 /\ value.type = "Table"
  THEN [ctx EXCEPT !.elem_match_table = mongory_table_merge(@, value.t)]
  ELSE IF IsOperatorKey(key) \/ mongory_try_parse_int(key, TRUE).ok
  THEN [ctx EXCEPT !.parsed_table = mongory_table_set(@, key, value)]
  ELSE [ctx EXCEPT !.elem_match_table = mongory_table_set(@, key, value)]

RECURSIVE mongory_matcher_array_record_parse_table_foreach(_, _)
mongory_matcher_array_record_parse_table_foreach(pairs, ctx) ==
  IF pairs = <<>> THEN ctx
  ELSE mongory_matcher_array_record_parse_table_foreach(
         Tail(pairs), ParseTablePair(ctx, pairs[1][1], pairs[1][2]))

\* The end of mongory_matcher_array_record_parse_table, ctx being what the
\* walk has gathered.
ParseTableEnd(ctx) ==
  IF Len(ctx.elem_match_table) > 0
  THEN VTab(mongory_table_set(ctx.parsed_table, "$elemMatch", VTab(ctx.elem_match_table)))
  ELSE VTab(ctx.parsed_table)

mongory_matcher_array_record_parse_table(condition) ==
  ParseTableEnd(mongory_matcher_array_record_parse_table_foreach(
                  condition.t, [parsed_table |-> <<>>, elem_match_table |-> <<>>]))

\* An array_record matcher that looks at the elements only, whatever the
\* condition.
array_record_new_elements_only(condition, err, g) ==
  IF condition.type = "NULLPTR" THEN Failed(err)
  ELSE mongory_matcher_elem_match_new(MG_TABLE_WRAP(<< <<"$eq", condition>> >>), err, g)

mongory_matcher_array_record_new(condition, err, g) ==
  CASE condition.type = "NULLPTR" -> Failed(err)
    [] condition.type = "Table" ->
         mongory_matcher_table_cond_new(
           mongory_matcher_array_record_parse_table(condition), err, g)
    [] condition.type = "Array" ->
         mongory_matcher_or_new(
           VArr(<<MG_TABLE_WRAP(<< <<"$eq", condition>> >>),
                  MG_TABLE_WRAP(<< <<"$elemMatch",
                                     MG_TABLE_WRAP(<< <<"$eq", condition>> >>)>> >>)>>),
           err, g)
    [] condition.type = "Regex" ->
         mongory_matcher_elem_match_new(MG_TABLE_WRAP(<< <<"$regex", condition>> >>), err, g)
    [] OTHER ->
         mongory_matcher_elem_match_new(MG_TABLE_WRAP(<< <<"$eq", condition>> >>), err, g)

(***************************************************************************)
(* Evaluation.  A match function returns its boolean r, the node m as the  *)
(* call leaves it (a Literal-wrapper may have built its array_record       *)
(* child), the entries tr pushed on trace stacks, in the order of the      *)
(* pushes, and pool->error.                                                *)
(***************************************************************************)
Returned(r, m, tr, err) == [r |-> r, m |-> m, tr |-> tr, err |-> err]

\* value->comp(value, condition) after the guards the compare matchers share;
\* "none" when a guard refuses the inputs.
CompareResult(matcher, value) ==
  IF value.type = "NULLPTR" \/ matcher.condition.type = "NULLPTR" THEN "none"
  ELSE IF mongory_value_compare(value, matcher.condition) = mongory_value_compare_fail
  THEN "fail"
  ELSE "ok"

mongory_matcher_equal_match(matcher, value) ==
  CompareResult(matcher, value) = "ok"
    /\ mongory_value_compare(value, matcher.condition) = 0

\* A $ne that holds only between values that can be compared.
not_equal_match_comparable_only(matcher, value) ==
  CompareResult(matcher, value) = "ok"
    /\ mongory_value_compare(value, matcher.condition) # 0

mongory_matcher_not_equal_match(matcher, value) ==
  CompareResult(matcher, value) # "ok"
    \/ mongory_value_compare(value, matcher.condition) # 0

mongory_matcher_greater_than_match(matcher, value) ==
  CompareResult(matcher, value) = "ok"
    /\ mongory_value_compare(value, matcher.condition) = 1

mongory_matcher_less_than_match(matcher, value) ==
  CompareResult(matcher, value) = "ok"
    /\ mongory_value_compare(value, matcher.condition) = -1

\* A $gte that does not look for mongory_value_compare_fail.
greater_than_or_equal_match_unguarded(matcher, value) ==
  value.type # "NULLPTR"
    /\ mongory_value_compare(value, matcher.condition) >= 0

mongory_matcher_greater_than_or_equal_match(matcher, value) ==
  CompareResult(matcher, value) = "ok"
    /\ mongory_value_compare(value, matcher.condition) >= 0

mongory_matcher_less_than_or_equal_match(matcher, value) ==
  CompareResult(matcher, value) = "ok"
    /\ mongory_value_compare(value, matcher.condition) <= 0

mongory_matcher_exists_match(matcher, value) ==
  matcher.condition.b = (value.type # "NULLPTR")

\* A $present that is $exists.
present_match_as_exists(matcher, value) == mongory_matcher_exists_match(matcher, value)

mongory_matcher_present_match(matcher, value) ==
  LET expects == matcher.condition.b
  IN  CASE value.type = "NULLPTR" -> ~expects
        [] value.type = "Array" -> expects = (Len(value.a) > 0)
        [] value.type = "Table" -> expects = (Len(value.t) > 0)
        [] value.type = "String" -> expects = (Chars[value.s] # <<>>)
        [] value.type = "Null" -> expects = FALSE
        [] value.type = "Bool" -> value.b = expects
        [] OTHER -> expects = TRUE

\* array.c: mongory_array_includes.
mongory_array_includes(items, value) ==
  \E i \in 1..Len(items) : mongory_value_compare(items[i], value) = 0

\* An $in that looks for an Array among the elements of the condition as it
\* does for any other value.
in_match_whole_value(matcher, value_to_check) ==
  value_to_check.type # "NULLPTR"
    /\ mongory_array_includes(matcher.condition.a, value_to_check)

mongory_matcher_in_match(matcher, value_to_check) ==
  IF value_to_check.type = "NULLPTR" \/ matcher.condition.type = "NULLPTR" THEN FALSE
  ELSE IF value_to_check.type # "Array"
  THEN mongory_array_includes(matcher.condition.a, value_to_check)
  ELSE \E i \in 1..Len(value_to_check.a) :
         mongory_array_includes(matcher.condition.a, value_to_check.a[i])

mongory_matcher_not_in_match(matcher, value) == ~mongory_matcher_in_match(matcher, value)

\* The regex adapter is the default one, whose match_func is always false.
mongory_matcher_regex_match(matcher, value) ==
  IF value.type = "NULLPTR" \/ value.type # "String" THEN FALSE ELSE FALSE

\* The host's match callback is a constant function, "true" or "false".
mongory_matcher_custom_match(matcher, value, g) ==
  IF g.custom.match = "NULL" THEN FALSE ELSE g.custom.match = "true"

\* The rest of traced_match once the original match function has returned o:
\* the entry goes on the node's trace stack, o.m being the node as it is then.
TracedPush(matcher, value, o) ==
  Returned(o.r, o.m,
           Append(o.tr, [stack |-> matcher.trace_stack, level |-> matcher.trace_level,
                         name |-> matcher.name, matched |-> o.r,
                         field |-> IF matcher.name = "Field" THEN matcher.field ELSE "",
                         condition |-> matcher.condition, record |-> value]),
           o.err)

RECURSIVE CallMatch(_, _, _, _, _)
RECURSIVE mongory_matcher_and_match(_, _, _, _)
RECURSIVE mongory_matcher_literal_match(_, _, _, _)

\* matcher->match(matcher, value)
Match(matcher, value, g, err) == CallMatch(matcher.match, matcher, value, g, err)

\* matcher.c: mongory_matcher_traced_match.  The entry is pushed after the
\* original match function has returned.
mongory_matcher_traced_match(matcher, value, g, err) ==
  TracedPush(matcher, value, CallMatch(matcher.original_match, matcher, value, g, err))

\* The loop of and_match / or_match over the children from index i on: it
\* returns stop_on as soon as a child returns stop_on, and ~stop_on at the end.
RECURSIVE ChildrenLoop(_, _, _, _, _, _, _)
RECURSIVE ChildrenNext(_, _, _, _, _, _, _)
ChildrenLoop(matcher, value, g, err, i, tr, stop_on) ==
  IF i > Len(matcher.children) THEN Returned(~stop_on, matcher, tr, err)
  ELSE ChildrenNext(matcher, value, g, i, tr, stop_on,
                    Match(matcher.children[i], value, g, err))

\* The step of the loop once child i has returned c.
ChildrenNext(matcher, value, g, i, tr, stop_on, c) ==
  IF c.r = stop_on
  THEN Returned(stop_on, [matcher EXCEPT !.children[i] = c.m], tr \o c.tr, c.err)
  ELSE ChildrenLoop([matcher EXCEPT !.children[i] = c.m], value, g, c.err, i + 1,
                    tr \o c.tr, stop_on)

\* A conjunction that is content with one child.
and_match_any_child(matcher, value, g, err) ==
  ChildrenLoop(matcher, value, g, err, 1, <<>>, TRUE)

mongory_matcher_and_match(matcher, value, g, err) ==
  ChildrenLoop(matcher, value, g, err, 1, <<>>, FALSE)

mongory_matcher_or_match(matcher, value, g, err) ==
  ChildrenLoop(matcher, value, g, err, 1, <<>>, TRUE)

\* The loop of elem_match_match / every_match over the elements from index i
\* on, each element going through mongory_matcher_and_match.
RECURSIVE ElementsLoop(_, _, _, _, _, _, _)
RECURSIVE ElementsNext(_, _, _, _, _, _)
ElementsLoop(matcher, items, g, err, i, tr, stop_on) ==
  IF i > Len(items) THEN Returned(~stop_on, matcher, tr, err)
  ELSE ElementsNext(items, g, i, tr, stop_on,
                    mongory_matcher_and_match(matcher, items[i], g, err))

\* The step of the loop once the conjunction has returned c on element i.
ElementsNext(items, g, i, tr, stop_on, c) ==
  IF c.r = stop_on THEN Returned(stop_on, c.m, tr \o c.tr, c.err)
  ELSE ElementsLoop(c.m, items, g, c.err, i + 1, tr \o c.tr, stop_on)

mongory_matcher_elem_match_match(matcher, elem_match_target, g, err) ==
  IF elem_match_target.type = "NULLPTR" \/ elem_match_target.type # "Array"
  THEN Returned(FALSE, matcher, <<>>, err)
  ELSE IF Len(elem_match_target.a) = 0 THEN Returned(FALSE, matcher, <<>>, err)
  ELSE ElementsLoop(matcher, elem_match_target.a, g, err, 1, <<>>, TRUE)

\* An $every that stops at the first element that satisfies the conditions.
every_match_stopping_at_match(matcher, every_match_target, g, err) ==
  mongory_matcher_elem_match_match(matcher, every_match_target, g, err)

mongory_matcher_every_match(matcher, every_match_target, g, err) ==
  IF every_match_target.type = "NULLPTR" \/ every_match_target.type # "Array"
  THEN Returned(FALSE, matcher, <<>>, err)
  ELSE IF Len(every_match_target.a) = 0 THEN Returned(FALSE, matcher, <<>>, err)
  ELSE ElementsLoop(matcher, every_match_target.a, g, err, 1, <<>>, FALSE)

\* What literal_match returns once the child it has chosen has returned c.
ThroughArrayRecord(matcher, c) ==
  Returned(c.r, [matcher EXCEPT !.array_record_matcher = c.m], c.tr, c.err)

ThroughDelegate(matcher, c) ==
  Returned(c.r, [matcher EXCEPT !.delegate_matcher = c.m], c.tr, c.err)

\* literal_match on an Array value, built being the array_record child: the
\* one the node holds, or the one mongory_matcher_array_record_new has just
\* made and the node holds from now on.
LiteralMatchArray(matcher, value, g, built) ==
  IF built.m = NoMatcher THEN Returned(FALSE, matcher, <<>>, built.err)
  ELSE ThroughArrayRecord(matcher, Match(built.m, value, g, built.err))

\* A literal_match that goes on with the array_record child once it is built,
\* whatever the value.
literal_match_keeping_array_record(matcher, value, g, err) ==
  IF matcher.array_record_matcher # NoMatcher \/ value.type = "Array"
  THEN LiteralMatchArray(matcher, value, g,
         IF matcher.array_record_matcher = NoMatcher
         THEN mongory_matcher_array_record_new(matcher.condition, err, g)
         ELSE Built(matcher.array_record_matcher, err))
  ELSE IF matcher.delegate_matcher = NoMatcher THEN Returned(FALSE, matcher, <<>>, err)
  ELSE ThroughDelegate(matcher, Match(matcher.delegate_matcher, value, g, err))

\* A literal_match that constructs the array_record child on every Array.
literal_match_rebuilding_array_record(matcher, value, g, err) ==
  IF value.type # "NULLPTR" /\ value.type = "Array"
  THEN LiteralMatchArray(matcher, value, g,
         mongory_matcher_array_record_new(matcher.condition, err, g))
  ELSE IF matcher.delegate_matcher = NoMatcher THEN Returned(FALSE, matcher, <<>>, err)
  ELSE ThroughDelegate(matcher, Match(matcher.delegate_matcher, value, g, err))

mongory_matcher_literal_match(matcher, value, g, err) ==
  IF value.type # "NULLPTR" /\ value.type = "Array"
  THEN LiteralMatchArray(matcher, value, g,
         IF matcher.array_record_matcher = NoMatcher
         THEN mongory_matcher_array_record_new(matcher.condition, err, g)
         ELSE Built(matcher.array_record_matcher, err))
  ELSE IF matcher.delegate_matcher = NoMatcher THEN Returned(FALSE, matcher, <<>>, err)
  ELSE ThroughDelegate(matcher, Match(matcher.delegate_matcher, value, g, err))

\* (size_t)(-index) > count for index < 0.  Negating INT_MIN overflows: the
\* build either wraps it to INT_MIN or widens it to 2^31, and both exceed
\* every count as a size_t.
NegatedIndexExceeds(index, count) ==
  IF index = INT_MIN THEN TRUE ELSE -index > count

\* (size_t)index >= count: a negative int is a huge size_t.
SizeTAtLeast(index, count) == index < 0 \/ index >= count

\* The value a Field node extracts: [found, value].  found is FALSE where
\* field_match returns false before it reaches literal_match.
NotFound == [found |-> FALSE, value |-> NoValue]

\* The second bounds check and array->get.
ArrayFieldAt(items, index) ==
  IF SizeTAtLeast(index, Len(items)) THEN NotFound
  ELSE [found |-> TRUE, value |-> items[index + 1]]

\* An extraction that does not count a negative index from the end.
ArrayFieldValueFromStart(items, index) == ArrayFieldAt(items, index)

\* The element of an Array value at the index the key parsed to: a negative
\* index counts from the end.
ArrayFieldValue(items, index) ==
  IF index < 0 /\ NegatedIndexExceeds(index, Len(items)) THEN NotFound
  ELSE ArrayFieldAt(items, IF index < 0 THEN Len(items) + index ELSE index)

ArrayFieldParsed(items, p) ==
  IF ~p.ok THEN NotFound ELSE ArrayFieldValue(items, p.val)

FieldValue(field_key, value) ==
  CASE value.type = "NULLPTR" -> NotFound
    [] value.type = "Table" ->
         [found |-> TRUE, value |-> mongory_table_get(value.t, field_key)]
    [] value.type = "Array" ->
         ArrayFieldParsed(value.a, mongory_try_parse_int(field_key, FALSE))
    [] OTHER -> NotFound

FieldMatchOn(matcher, f, g, err) ==
  IF ~f.found THEN Returned(FALSE, matcher, <<>>, err)
  ELSE mongory_matcher_literal_match(matcher, f.value, g, err)

mongory_matcher_field_match(matcher, value, g, err) ==
  FieldMatchOn(matcher, FieldValue(matcher.field, value), g, err)

Negated(c) == Returned(~c.r, c.m, c.tr, c.err)

mongory_matcher_not_match(matcher, value, g, err) ==
  Negated(mongory_matcher_literal_match(matcher, value, g, err))

mongory_matcher_size_match(matcher, value, g, err) ==
  IF value.type = "NULLPTR" \/ value.type # "Array"
  THEN Returned(FALSE, matcher, <<>>, err)
  ELSE mongory_matcher_literal_match(matcher, VInt(Len(value.a)), g, err)

\* The call through a match function pointer.
CallMatch(func, matcher, value, g, err) ==
  LET Leaf(r) == Returned(r, matcher, <<>>, err)
  IN  CASE func = "traced_match" -> mongory_matcher_traced_match(matcher, value, g, err)
        [] func = "always_true_match" -> Leaf(TRUE)
        [] func = "always_false_match" -> Leaf(FALSE)
        [] func = "equal_match" -> Leaf(mongory_matcher_equal_match(matcher, value))
        [] func = "not_equal_match" -> Leaf(mongory_matcher_not_equal_match(matcher, value))
        [] func = "greater_than_match" -> Leaf(mongory_matcher_greater_than_match(matcher, value))
        [] func = "less_than_match" -> Leaf(mongory_matcher_less_than_match(matcher, value))
        [] func = "greater_than_or_equal_match" ->
             Leaf(mongory_matcher_greater_than_or_equal_match(matcher, value))
        [] func = "less_than_or_equal_match" ->
             Leaf(mongory_matcher_less_than_or_equal_match(matcher, value))
        [] func = "exists_match" -> Leaf(mongory_matcher_exists_match(matcher, value))
        [] func = "present_match" -> Leaf(mongory_matcher_present_match(matcher, value))
        [] func = "in_match" -> Leaf(mongory_matcher_in_match(matcher, value))
        [] func = "not_in_match" -> Leaf(mongory_matcher_not_in_match(matcher, value))
        [] func = "regex_match" -> Leaf(mongory_matcher_regex_match(matcher, value))
        [] func = "custom_match" -> Leaf(mongory_matcher_custom_match(matcher, value, g))
        [] func = "and_match" -> mongory_matcher_and_match(matcher, value, g, err)
        [] func = "or_match" -> mongory_matcher_or_match(matcher, value, g, err)
        [] func = "elem_match_match" -> mongory_matcher_elem_match_match(matcher, value, g, err)
        [] func = "every_match" -> mongory_matcher_every_match(matcher, value, g, err)
        [] func = "field_match" -> mongory_matcher_field_match(matcher, value, g, err)
        [] func = "not_match" -> mongory_matcher_not_match(matcher, value, g, err)
        [] func = "size_match" -> mongory_matcher_size_match(matcher, value, g, err)

(***************************************************************************)
(* matcher_traversable.c and matcher.c: the traversals and the tracer.     *)
(***************************************************************************)
mongory_matcher_enable_trace_cb(matcher, acc, level) ==
  [matcher EXCEPT !.trace_stack = acc, !.trace_level = level, !.match = "traced_match"]

mongory_matcher_disable_trace_cb(matcher, acc, level) ==
  [matcher EXCEPT !.match = matcher.original_match, !.trace_stack = 0]

CallCallback(callback, matcher, acc, level) ==
  CASE callback = "enable_trace_cb" -> mongory_matcher_enable_trace_cb(matcher, acc, level)
    [] callback = "disable_trace_cb" -> mongory_matcher_disable_trace_cb(matcher, acc, level)

RECURSIVE Traverse(_, _, _, _)

mongory_matcher_leaf_traverse(matcher, callback, acc, level) ==
  CallCallback(callback, matcher, acc, level)

mongory_matcher_composite_traverse(matcher, callback, acc, level) ==
  LET self == mongory_matcher_leaf_traverse(matcher, callback, acc, level)
  IN  [self EXCEPT !.children =
         [i \in 1..Len(self.children) |-> Traverse(self.children[i], callback, acc, level + 1)]]

\* The traversal goes on into one child only: the array_record child when it
\* exists, the delegate otherwise.
WithNextMatcher(self, next_matcher) ==
  IF self.array_record_matcher # NoMatcher
  THEN [self EXCEPT !.array_record_matcher = next_matcher]
  ELSE [self EXCEPT !.delegate_matcher = next_matcher]

mongory_matcher_literal_traverse(matcher, callback, acc, level) ==
  WithNextMatcher(
    mongory_matcher_leaf_traverse(matcher, callback, acc, level),
    Traverse(IF matcher.array_record_matcher # NoMatcher
             THEN matcher.array_record_matcher ELSE matcher.delegate_matcher,
             callback, acc, level + 1))

\* matcher->traverse(matcher, &ctx)
Traverse(matcher, callback, acc, level) ==
  CASE matcher.traverse = "leaf_traverse" ->
         mongory_matcher_leaf_traverse(matcher, callback, acc, level)
    [] matcher.traverse = "composite_traverse" ->
         mongory_matcher_composite_traverse(matcher, callback, acc, level)
    [] matcher.traverse = "literal_traverse" ->
         mongory_matcher_literal_traverse(matcher, callback, acc, level)

mongory_matcher_enable_trace(matcher, trace_stack) ==
  Traverse(matcher, "enable_trace_cb", trace_stack, 0)

mongory_matcher_disable_trace(matcher) ==
  Traverse(matcher, "disable_trace_cb", 0, 0)

\* A sort that leaves the entries in the order in which they were pushed.
traces_sort_as_pushed(self, level, i, group, sorted_array) == self

\* mongory_matcher_traces_sort from item i on, with the group gathered so far.
RECURSIVE mongory_matcher_traces_sort(_, _)
RECURSIVE TracesSortFrom(_, _, _, _, _)
TracesSortFrom(self, level, i, group, sorted_array) ==
  IF i > Len(self) THEN sorted_array
  ELSE IF self[i].level = level
  THEN TracesSortFrom(self, level, i + 1, <<>>,
         Append(sorted_array, self[i]) \o mongory_matcher_traces_sort(group, level + 1))
  ELSE TracesSortFrom(self, level, i + 1, Append(group, self[i]), sorted_array)

mongory_matcher_traces_sort(self, level) == TracesSortFrom(self, level, 1, <<>>, <<>>)

\* mongory_matcher_print_trace: the lines printed, given the entries the root's
\* trace stack holds.
mongory_matcher_print_trace(matcher, entries) ==
  IF matcher.trace_stack = 0 THEN <<>> ELSE mongory_matcher_traces_sort(entries, 0)

\* The entries of tr pushed on stack id, and those pushed on other stacks.
RECURSIVE PushedOn(_, _)
PushedOn(tr, id) ==
  IF tr = <<>> THEN <<>>
  ELSE IF Head(tr).stack = id THEN <<Head(tr)>> \o PushedOn(Tail(tr), id)
  ELSE PushedOn(Tail(tr), id)

RECURSIVE PushedElsewhere(_, _)
PushedElsewhere(tr, id) ==
  IF tr = <<>> THEN <<>>
  ELSE IF Head(tr).stack # id THEN <<Head(tr)>> \o PushedElsewhere(Tail(tr), id)
  ELSE PushedElsewhere(Tail(tr), id)

\* mongory_matcher_trace with the array of this trace numbered id: the result,
\* the tree it leaves, the lines printed and the entries pushed on the arrays
\* of earlier traces.
TraceEnd(id, c) ==
  [r |-> c.r,
   m |-> mongory_matcher_disable_trace(c.m),
   printed |-> mongory_matcher_print_trace(c.m, PushedOn(c.tr, id)),
   stale |-> PushedElsewhere(c.tr, id),
   err |-> c.err]

mongory_matcher_trace(matcher, value, id, g, err) ==
  TraceEnd(id, Match(mongory_matcher_enable_trace(matcher, id), value, g, err))

(***************************************************************************)
(* The inputs of the model: the queries compiled and the records matched.  *)
(***************************************************************************)
T(pairs) == MG_TABLE_WRAP(pairs)
T1(key, value) == MG_TABLE_WRAP(<< <<key, value>> >>)

Ints == {VInt(i) : i \in 1..MaxInt}

\* The scalars of records.
Elements == {VNull, VStr("a")} \cup Ints

\* The arrays of at most MaxLen elements, each Null or an Int.
FlatArrays ==
  UNION {{VArr(s) : s \in [1..n -> {VNull} \cup Ints]} : n \in 0..MaxLen}

NestedArrays ==
  {VArr(<<VStr("a"), VInt(1)>>),
   VArr(<<VArr(<<VInt(1)>>)>>),
   VArr(<<VArr(<<VArr(<<VInt(1)>>)>>)>>),
   VArr(<<VInt(2), VArr(<<VInt(1), VInt(2)>>)>>),
   VArr(<<T1("a", VInt(1))>>),
   VArr(<<T1("a", VInt(2)), T1("a", VInt(1))>>)}

ArrayValues == FlatArrays \cup NestedArrays

MapValues ==
  {T(<<>>), T1("a", VInt(1)), T1("a", VInt(2)), T1("b", VInt(1)),
   T(<< <<"a", VInt(1)>>, <<"b", VInt(1)>> >>),
   T(<< <<"a", VInt(1)>>, <<"b", VInt(2)>> >>),
   T(<< <<"a", VInt(2)>>, <<"b", VInt(1)>> >>)}

FieldValues == Elements \cup ArrayValues \cup {VBool(TRUE), T(<<>>), T1("a", VInt(1))}

\* The records that are Maps, and the missing one (the NULL pointer).
MapRecords == {NoValue} \cup MapValues \cup {T1("f", v) : v \in FieldValues}

\* The records that are Arrays or scalars, and the missing one.
ArrayRecords == {NoValue} \cup Elements \cup ArrayValues

\* {f: c} for the literal conditions c.
LiteralConditions ==
  {VNull, VInt(1), VInt(2), VStr("a"), VArr(<<>>), VArr(<<VInt(1)>>),
   VArr(<<VInt(1), VInt(2)>>), VArr(<<VArr(<<VInt(1)>>)>>)}

LiteralQueries == {T1("f", c) : c \in LiteralConditions}

\* {f: c} for Map conditions c, as met by Array and other values of f.
MapConditions ==
  {T1("0", VInt(1)), T1("0", VInt(2)), T1("-1", VInt(1)), T1("1", VNull),
   T1("a", VInt(1)), T1("$size", VInt(1)), T1("$gt", VInt(1)),
   T1("$elemMatch", T1("a", VInt(1))),
   T(<< <<"a", VInt(1)>>, <<"$size", VInt(2)>> >>)}

MapQueries == {T1("f", c) : c \in MapConditions}

\* {k: 1} for the keys a Field node may meet an Array record with.
IndexKeys == {"0", "1", "2", "-1", "-2", "-3", "+1", "1x", "a", "", "-2147483648"}

IndexQueries == {T1(k, VInt(1)) : k \in IndexKeys} \cup {T1("0", VNull)}

\* The maps m of {$elemMatch: m} and {$every: m}.
ElementConditions ==
  {T(<<>>), T1("$eq", VInt(1)), T1("$gt", VInt(1)), T1("a", VInt(1)),
   T(<< <<"$gte", VInt(1)>>, <<"$lt", VInt(2)>> >>)}

ElemMatchQueries == {T1("$elemMatch", m) : m \in ElementConditions}
EveryQueries == {T1("$every", m) : m \in ElementConditions}

\* The arrays of {$and: [m1..mn]}.
AndConditions ==
  {<<>>, <<T(<<>>)>>, <<T(<<>>), T(<<>>)>>, <<T1("a", VInt(1))>>,
   <<T1("a", VInt(1)), T1("a", VInt(2))>>,
   <<T1("a", VInt(1)), T1("b", VInt(1))>>,
   <<T(<< <<"a", VInt(1)>>, <<"b", VInt(1)>> >>), T(<<>>), T1("b", T1("$gt", VInt(0)))>>,
   <<T1("a", T1("$gt", VInt(1))), T1("a", T1("$lt", VInt(2)))>>}

AndQueries == {T1("$and", VArr(ms)) : ms \in AndConditions}

\* The arrays of {$or: [m1..mn]}.
OrConditions ==
  {<<>>, <<T(<<>>)>>, <<T1("a", VInt(1))>>, <<T1("a", VInt(1)), T(<<>>)>>,
   <<T1("a", VInt(1)), T1("b", VInt(1))>>,
   <<T(<< <<"a", VInt(1)>>, <<"b", VInt(1)>> >>)>>,
   <<T(<< <<"a", VInt(1)>>, <<"b", VInt(1)>> >>), T1("a", VInt(2))>>,
   <<T1("a", T1("$gt", VInt(1))), T1("b", T1("$gt", VInt(1)))>>}

OrQueries == {T1("$or", VArr(ms)) : ms \in OrConditions}

\* The Map queries whose keys are all field names.
PlainMapQueries ==
  {T(<<>>), T1("a", VInt(1)), T1("b", VNull),
   T(<< <<"a", VInt(1)>>, <<"b", VInt(1)>> >>),
   T(<< <<"a", VInt(2)>>, <<"b", VInt(1)>> >>),
   T(<< <<"b", VInt(1)>>, <<"a", T1("$gt", VInt(1))>> >>),
   T(<< <<"a", T1("$in", VArr(<<VInt(1), VInt(2)>>))>>, <<"b", VInt(1)>> >>),
   T(<< <<"a", VNull>>, <<"b", VInt(1)>> >>),
   T(<< <<"a", VInt(1)>>, <<"b", T1("$exists", VBool(FALSE))>> >>)}

\* The records the queries of $or and the plain Map queries are matched with.
LogicRecords ==
  {NoValue, VInt(1), T(<<>>), T1("a", VNull), T1("a", VArr(<<VInt(1)>>))}
    \cup {T1(k, v) : k \in {"a", "b"}, v \in Ints}
    \cup {T(<< <<"a", v>>, <<"b", w>> >>) : v, w \in Ints}

\* The primitive conditions, and the values the leaves are matched with.
Primitives == {VNull, VBool(TRUE), VBool(FALSE), VStr(""), VStr("a"), VStr("b")} \cup Ints

LeafArrays ==
  {VArr(<<>>), VArr(<<VNull>>), VArr(<<VStr("a")>>), VArr(<<VArr(<<VInt(1)>>)>>)}
    \cup {VArr(<<x>>) : x \in Ints} \cup {VArr(<<x, y>>) : x, y \in Ints}

LeafValues == Primitives \cup LeafArrays \cup {T(<<>>), T1("a", VInt(1)), VRegex}

\* A leaf meets a value as the record itself, the missing record included,
\* or as the field f of a Map, which may be missing from it.
LeafRecords == {NoValue} \cup LeafValues
LeafFieldRecords == {T(<<>>)} \cup {T1("f", v) : v \in LeafValues}

\* {f: {$not: {$eq: x}}} and {f: {$ne: x}}.
NotEqualQueries == {T1("f", T1("$not", T1("$eq", x))) : x \in Primitives}
NeQueries == {T1("f", T1("$ne", x)) : x \in Primitives}

\* {$in: arr} and {$nin: arr}.
InclusionConditions ==
  {VArr(<<>>), VArr(<<VNull>>), VArr(<<VStr("a"), VBool(TRUE)>>),
   VArr(<<VArr(<<VInt(1)>>)>>)}
    \cup {VArr(<<x>>) : x \in Ints} \cup {VArr(<<x, VNull>>) : x \in Ints}

InQueries == {T1("$in", arr) : arr \in InclusionConditions}
NinQueries == {T1("$nin", arr) : arr \in InclusionConditions}

\* {$gt: c}, {$gte: c}, {$lt: c} and {$lte: c}.
OrderConditions ==
  {VNull, VBool(FALSE), VStr("a"), VArr(<<VInt(1)>>), VArr(<<VNull>>)} \cup Ints

OrderQueries == {T1(k, c) : k \in {"$gt", "$gte", "$lt", "$lte"}, c \in OrderConditions}

\* {$present: b}.
PresentQueries == {T1("$present", VBool(b)) : b \in BOOLEAN}

LeafQueries == InQueries \cup NinQueries \cup OrderQueries \cup PresentQueries

\* The queries on the fields of a Map, and those on the elements of an Array.
FieldQueries == LiteralQueries \cup MapQueries \cup AndQueries
ElementQueries == IndexQueries \cup ElemMatchQueries \cup EveryQueries

(***************************************************************************)
(* The state: the global configuration of config.c, one pool holding one   *)
(* compiled matcher, and what the last call returned.                      *)
(***************************************************************************)
(***************************************************************************)
(* memory_pool.c: the arena.  A chunk is its size and the bytes used of    *)
(* it; current is the index of the chunk alloc takes blocks from.          *)
(***************************************************************************)
MONGORY_INITIAL_CHUNK_SIZE == 2048

MONGORY_ALIGN8(size) == ((size + 7) \div 8) * 8

mongory_memory_chunk_new(chunk_size) == [size |-> chunk_size, used |-> 0]

mongory_memory_pool_new ==
  [chunk_size |-> MONGORY_INITIAL_CHUNK_SIZE,
   chunks |-> <<mongory_memory_chunk_new(MONGORY_INITIAL_CHUNK_SIZE)>>,
   current |-> 1]

\* while (request_size > ctx->chunk_size) ctx->chunk_size *= 2;
RECURSIVE DoubledUntil(_, _)
DoubledUntil(chunk_size, request_size) ==
  IF request_size > chunk_size THEN DoubledUntil(chunk_size * 2, request_size)
  ELSE chunk_size

\* grow once the chunk size has been doubled: calloc gives the new chunk or
\* fails, and the doubled chunk size stays in either case.
GrowWith(ctx, chunk_size, calloc_fails) ==
  IF calloc_fails THEN [ok |-> FALSE, ctx |-> [ctx EXCEPT !.chunk_size = chunk_size]]
  ELSE [ok |-> TRUE,
        ctx |-> [chunk_size |-> chunk_size,
                 chunks |-> Append(ctx.chunks, mongory_memory_chunk_new(chunk_size)),
                 current |-> Len(ctx.chunks) + 1]]

\* A chunk that is linked after the current one becomes the current one,
\* whatever its size.
mongory_memory_pool_grow(ctx, request_size, calloc_fails) ==
  IF ctx.current < Len(ctx.chunks)
  THEN [ok |-> TRUE, ctx |-> [ctx EXCEPT !.current = @ + 1]]
  ELSE GrowWith(ctx, DoubledUntil(ctx.chunk_size * 2, request_size), calloc_fails)

\* size > balance, balance being size - used as a size_t: once used exceeds
\* size the difference wraps to a number no request exceeds.
ExceedsBalance(size, chunk) ==
  IF chunk.used > chunk.size THEN FALSE ELSE size > chunk.size - chunk.used

NoBlock == [chunk |-> 0, offset |-> 0, size |-> 0]

\* The block taken from the current chunk of ctx: [ctx, block].
TakeFromCurrent(ctx, size) ==
  [ctx |-> [ctx EXCEPT !.chunks[ctx.current].used = @ + size],
   block |-> [chunk |-> ctx.current, offset |-> ctx.chunks[ctx.current].used,
              size |-> size]]

AllocGrown(g, size) ==
  IF ~g.ok THEN [ctx |-> g.ctx, block |-> NoBlock] ELSE TakeFromCurrent(g.ctx, size)

AllocAligned(ctx, size, calloc_fails) ==
  IF ExceedsBalance(size, ctx.chunks[ctx.current])
  THEN AllocGrown(mongory_memory_pool_grow(ctx, size, calloc_fails), size)
  ELSE TakeFromCurrent(ctx, size)

mongory_memory_pool_alloc(ctx, size, calloc_fails) ==
  AllocAligned(ctx, MONGORY_ALIGN8(size), calloc_fails)

\* The used count of the chunks from chunk i on is set to 0.
RECURSIVE AllUnused(_, _)
AllUnused(chunks, i) ==
  IF i > Len(chunks) THEN chunks
  ELSE AllUnused([chunks EXCEPT ![i].used = 0], i + 1)

mongory_memory_pool_reset(ctx) ==
  [ctx EXCEPT !.current = 1, !.chunks = AllUnused(ctx.chunks, 1)]

\* A matcher is traced at most MaxTraces times between two compilations.
MaxTraces == 2

VARIABLES
  mongory_matcher_mapping,        \* config.c: the registry, NullMapping when NULL
  mongory_custom_matcher_adapter, \* config.c: lookup, build and match
  pool_error,                     \* pool->error of the matcher's pool
  matcher,                        \* the compiled tree, NoMatcher when there is none
  query,                          \* the condition last compiled
  op,                             \* the last call
  record,                         \* the record of the last match or trace
  result,                         \* what the last match or trace returned
  printed,                        \* the lines the last trace printed
  stale_pushes,                   \* entries the last call pushed on arrays of earlier traces
  trace_count,                    \* the traces of this matcher so far
  freed_stacks,                   \* the traces whose record pool has been freed
  ub,                             \* a freed trace array has been written to
  table,                          \* table.c: a table of a pool of its own
  table_call,                     \* the key and value of the last call on the table, and what it returned
  pool_recycled,                  \* the table's pool was reset before the table was made
  threads,                        \* literal_match of each thread: where it is and what it holds
  literal,                        \* the Literal-wrapper the threads share
  pool,                           \* memory_pool.c: an arena, its chunks and its current chunk
  blocks                          \* the blocks alloc has returned since the last reset

vars ==
  <<mongory_matcher_mapping, mongory_custom_matcher_adapter, pool_error, matcher,
    query, op, record, result, printed, stale_pushes, trace_count, freed_stacks, ub,
    table, table_call, pool_recycled, threads, literal, pool, blocks>>

config == <<mongory_matcher_mapping, mongory_custom_matcher_adapter>>
compiled == <<pool_error, matcher, query, trace_count, freed_stacks>>
last_call == <<record, result, printed, stale_pushes>>
matching == <<config, compiled, last_call, ub>>
tables == <<table, table_call, pool_recycled>>
evaluators == <<threads, literal>>
arena == <<pool, blocks>>
substrate == <<tables, evaluators, arena>>

\* The threads that evaluate the shared tree.
Evaluators == {1, 2}

\* A thread outside literal_match.
Idle == [pc |-> "idle", built |-> 0, called |-> 0]

\* The shared Literal-wrapper as compiled: array_record_matcher is NULL (0),
\* and no array_record child has been constructed or stored.
LiteralNew == [array_record_matcher |-> 0, constructed |-> 0, published |-> 0]

G == [mapping |-> mongory_matcher_mapping, custom |-> mongory_custom_matcher_adapter]

\* lookup is the callback by the keys it returns true for, once it is set.
NullAdapter ==
  [lookup |-> [set |-> FALSE, keys |-> {}], build |-> "NULL", match |-> "NULL"]

InitialisedMapping == [init |-> TRUE, names |-> BuiltinNames]

InitWith(mapping) ==
  /\ mongory_matcher_mapping = mapping
  /\ mongory_custom_matcher_adapter = NullAdapter
  /\ pool_error = NoError
  /\ matcher = NoMatcher
  /\ query = NoValue
  /\ op = "start"
  /\ record = NoValue
  /\ result = FALSE
  /\ printed = <<>>
  /\ stale_pushes = <<>>
  /\ trace_count = 0
  /\ freed_stacks = {}
  /\ ub = FALSE
  /\ table = mongory_table_new
  /\ table_call = [key |-> "", value |-> NoValue, returned |-> FALSE]
  /\ pool_recycled = FALSE
  /\ threads = [t \in Evaluators |-> Idle]
  /\ literal = LiteralNew
  /\ pool = mongory_memory_pool_new
  /\ blocks = <<>>

\* The process has started: nothing is initialised.
Init == InitWith(NullMapping)

\* The host has called mongory_init and not installed a custom adapter.
InitInitialised == InitWith(InitialisedMapping)

\* The process is running: it has neither crashed nor written to freed memory.
Alive == ~ub /\ op # "crash"

\* config.c: mongory_init registers the seventeen built-in constructors.
mongory_init ==
  /\ Alive
  /\ mongory_matcher_mapping' =
       [init |-> TRUE, names |-> mongory_matcher_mapping.names \cup BuiltinNames]
  /\ op' = "init"
  /\ UNCHANGED <<mongory_custom_matcher_adapter, compiled, last_call, ub, substrate>>

mongory_cleanup_keeping_mapping ==
  /\ Alive
  /\ mongory_matcher_mapping' = mongory_matcher_mapping
  /\ op' = "cleanup"
  /\ UNCHANGED <<mongory_custom_matcher_adapter, compiled, last_call, ub, substrate>>

\* config.c: mongory_cleanup frees the internal pool and drops the registry.
mongory_cleanup ==
  /\ Alive
  /\ mongory_matcher_mapping' = NullMapping
  /\ op' = "cleanup"
  /\ UNCHANGED <<mongory_custom_matcher_adapter, compiled, last_call, ub, substrate>>

\* The lookup callbacks a host installs: one that knows no key, one that knows $foo.
HostLookups == {{}, {"$foo"}}

mongory_custom_matcher_lookup_func_set ==
  /\ Alive
  /\ \E lookup \in HostLookups :
       mongory_custom_matcher_adapter' = [mongory_custom_matcher_adapter EXCEPT
            !.lookup = [set |-> TRUE, keys |-> lookup]]
  /\ op' = "lookup_func_set"
  /\ UNCHANGED <<mongory_matcher_mapping, compiled, last_call, ub, substrate>>

\* The build callbacks a host installs: one that builds of every condition,
\* one that refuses a Null condition.
HostBuilds == {"host", "strict"}

mongory_custom_matcher_build_func_set ==
  /\ Alive
  /\ \E build \in HostBuilds :
       mongory_custom_matcher_adapter' = [mongory_custom_matcher_adapter EXCEPT !.build = build]
  /\ op' = "build_func_set"
  /\ UNCHANGED <<mongory_matcher_mapping, compiled, last_call, ub, substrate>>

mongory_custom_matcher_match_func_set ==
  /\ Alive
  /\ \E match \in {"true", "false"} :
       mongory_custom_matcher_adapter' = [mongory_custom_matcher_adapter EXCEPT !.match = match]
  /\ op' = "match_func_set"
  /\ UNCHANGED <<mongory_matcher_mapping, compiled, last_call, ub, substrate>>

\* The host frees the matcher's pool and makes a new one.
PoolNew ==
  /\ Alive
  /\ pool_error' = NoError
  /\ matcher' = NoMatcher
  /\ query' = NoValue
  /\ trace_count' = 0
  /\ freed_stacks' = {}
  /\ op' = "pool_new"
  /\ UNCHANGED <<config, last_call, ub, substrate>>

\* mongory_matcher_new(pool, q, NULL) on the matcher's pool.
Compiled(q, b) ==
  /\ matcher' = b.m
  /\ pool_error' = b.err
  /\ query' = q
  /\ trace_count' = 0
  /\ freed_stacks' = {}
  /\ op' = IF b.err = StackOverflow THEN "crash" ELSE "compile"
  /\ UNCHANGED <<config, last_call, ub, substrate>>

Compile(q) ==
  /\ Alive
  /\ Compiled(q, mongory_matcher_new(q, pool_error, G))

\* Whether some entry of tr was pushed on the array of a freed pool.
WritesFreed(tr) == \E i \in 1..Len(tr) : tr[i].stack \in freed_stacks

\* mongory_matcher_match(matcher, r).  A node a trace left traced pushes on
\* the array of that trace; when its pool is gone the write is a use after
\* free, after which the call may return either boolean.
Matched(r, c) ==
  /\ matcher' = c.m
  /\ pool_error' = c.err
  /\ record' = r
  /\ stale_pushes' = c.tr
  /\ ub' = WritesFreed(c.tr)
  /\ IF WritesFreed(c.tr) THEN result' \in BOOLEAN ELSE result' = c.r
  /\ op' = IF c.err = StackOverflow THEN "crash" ELSE "match"
  /\ UNCHANGED <<config, query, printed, trace_count, freed_stacks, substrate>>

MatchRecord(r) ==
  /\ Alive
  /\ matcher # NoMatcher
  /\ Matched(r, Match(matcher, r, G, pool_error))

\* mongory_matcher_trace(matcher, r): r is a value of a live pool of its own.
Traced(r, t) ==
      /\ trace_count' = trace_count + 1
      /\ matcher' = t.m
      /\ pool_error' = t.err
      /\ record' = r
      /\ printed' = t.printed
      /\ stale_pushes' = t.stale
      /\ ub' = WritesFreed(t.stale)
      /\ IF WritesFreed(t.stale) THEN result' \in BOOLEAN ELSE result' = t.r
      /\ op' = IF t.err = StackOverflow THEN "crash" ELSE "trace"
      /\ UNCHANGED <<config, query, freed_stacks, substrate>>

TraceRecord(r) ==
  /\ Alive
  /\ matcher # NoMatcher
  /\ r # NoValue
  /\ trace_count < MaxTraces
  /\ Traced(r, mongory_matcher_trace(matcher, r, trace_count + 1, G, pool_error))

\* The host frees the pool of a record it has traced.
FreeRecordPool ==
  /\ Alive
  /\ \E id \in 1..trace_count :
       /\ id \notin freed_stacks
       /\ freed_stacks' = freed_stacks \cup {id}
  /\ op' = "free_record_pool"
  /\ UNCHANGED <<config, pool_error, matcher, query, trace_count, last_call, ub, substrate>>

(***************************************************************************)
(* Spec: the whole life of the library, from an uninitialised process,     *)
(* with the host changing the configuration at any time.                   *)
(***************************************************************************)
ConfigQueries ==
  {T1("$foo", VInt(1)), T1("$eq", VInt(1)), T1("f", T1("$foo", VInt(1))),
   T1("f", VInt(1)), T1("f", VNull), T1("$and", VInt(1)), T1("$exists", VInt(1))}

ConfigRecords ==
  {NoValue, VInt(1), T1("f", VInt(1)), T1("f", VArr(<<VInt(1)>>)),
   T1("$foo", VInt(1)), T(<<>>)}

CompileConfig == \E q \in ConfigQueries : Compile(q)
MatchConfig == \E r \in ConfigRecords : MatchRecord(r)

Next ==
  \/ mongory_init
  \/ mongory_cleanup
  \/ mongory_custom_matcher_lookup_func_set
  \/ mongory_custom_matcher_build_func_set
  \/ mongory_custom_matcher_match_func_set
  \/ PoolNew
  \/ CompileConfig
  \/ MatchConfig

Spec == Init /\ [][Next]_vars

(***************************************************************************)
(* SpecMatch: an initialised library; queries on fields are compiled and   *)
(* matched against Maps, and nothing else happens.                         *)
(***************************************************************************)
CompileAny == \E q \in FieldQueries : Compile(q)
MatchAny == \E r \in MapRecords : MatchRecord(r)

NextMatch == CompileAny \/ MatchAny

SpecMatch == InitInitialised /\ [][NextMatch]_vars

(***************************************************************************)
(* SpecArray: an initialised library; queries on elements are compiled and *)
(* matched against Arrays and scalars, and nothing else happens.           *)
(***************************************************************************)
CompileElement == \E q \in ElementQueries : Compile(q)
MatchArray == \E r \in ArrayRecords : MatchRecord(r)

NextArray == CompileElement \/ MatchArray

SpecArray == InitInitialised /\ [][NextArray]_vars

(***************************************************************************)
(* SpecLogic: an initialised library; $or queries and Map queries without  *)
(* operators are compiled and matched against Maps, and nothing else       *)
(* happens.                                                                *)
(***************************************************************************)
CompileLogic == \E q \in OrQueries \cup PlainMapQueries : Compile(q)
MatchLogic == \E r \in LogicRecords : MatchRecord(r)

NextLogic == CompileLogic \/ MatchLogic

SpecLogic == InitInitialised /\ [][NextLogic]_vars

(***************************************************************************)
(* SpecLeaf: an initialised library; queries of one leaf operator are      *)
(* compiled and matched, and nothing else happens.                         *)
(***************************************************************************)
CompileLeaf == \E q \in LeafQueries : Compile(q)
MatchLeaf == \E r \in LeafRecords : MatchRecord(r)

NextLeaf == CompileLeaf \/ MatchLeaf

SpecLeaf == InitInitialised /\ [][NextLeaf]_vars

(***************************************************************************)
(* SpecNot: an initialised library; $not of $eq and $ne on the field f are *)
(* compiled and matched against Maps, and nothing else happens.            *)
(***************************************************************************)
CompileNot == \E q \in NotEqualQueries \cup NeQueries : Compile(q)
MatchNot == \E r \in LeafFieldRecords : MatchRecord(r)

NextNot == CompileNot \/ MatchNot

SpecNot == InitInitialised /\ [][NextNot]_vars

(***************************************************************************)
(* SpecCompile: an initialised library; the host installs the callbacks of *)
(* its custom operators, makes pools and compiles queries, some of which   *)
(* hold a condition that its constructor refuses.                          *)
(***************************************************************************)
\* Queries in which $in or $nin is not given an Array, $and or $or not an
\* Array of Maps, $elemMatch or $every not a Map.
ShapeQueries ==
  {T1("$in", VInt(1)), T1("$nin", VStr("a")), T1("f", T1("$in", VNull)),
   T1("$and", VInt(1)), T1("$and", VArr(<<VInt(1)>>)),
   T1("$and", VArr(<<T1("a", VInt(1)), VInt(1)>>)),
   T1("$or", T1("a", VInt(1))), T1("$or", VArr(<<T1("a", VInt(1)), VNull>>)),
   T1("$elemMatch", VInt(1)), T1("$every", VArr(<<>>)),
   T1("f", T1("$not", T1("$elemMatch", VInt(1))))}

\* Queries in which $exists or $present is not given a Bool.
BoolQueries ==
  {T1("$exists", VInt(1)), T1("$present", VNull),
   T1("f", T1("$exists", VStr("a"))),
   T1("$and", VArr(<<T1("a", VInt(1)), T1("b", T1("$present", VInt(1)))>>)),
   T1("$or", VArr(<<T1("a", VInt(1)), T1("b", T1("$exists", VInt(1)))>>)),
   T(<< <<"a", VInt(1)>>, <<"f", T1("$size", T1("$exists", VInt(1)))>> >>)}

\* Queries in which $regex is given neither a String nor a Regex.
RegexQueries == {T1("$regex", VInt(1)), T1("f", T1("$regex", VNull))}

\* Queries with the custom operator $foo, and queries every condition of
\* which its constructor accepts.
CustomQueries == {T1("$foo", VNull), T1("$foo", VInt(1)), T1("f", T1("$foo", VNull))}

ValidQueries ==
  {T1("f", VInt(1)), T1("$in", VArr(<<VInt(1)>>)), T1("$exists", VBool(TRUE)),
   T1("$and", VArr(<<T1("a", VInt(1))>>))}

CompileQueries ==
  ShapeQueries \cup BoolQueries \cup RegexQueries \cup CustomQueries \cup ValidQueries

CompileOnPool == \E q \in CompileQueries : Compile(q)

NextCompile ==
  \/ mongory_custom_matcher_lookup_func_set
  \/ mongory_custom_matcher_build_func_set
  \/ PoolNew
  \/ CompileOnPool

SpecCompile == InitInitialised /\ [][NextCompile]_vars

(***************************************************************************)
(* SpecSticky: an initialised library without custom operators; the host   *)
(* compiles one query after another on one pool, resets the pool, clears   *)
(* its error and makes it anew.                                            *)
(***************************************************************************)
StickyQueries == ShapeQueries \cup BoolQueries \cup RegexQueries \cup ValidQueries

CompileSticky == \E q \in StickyQueries : Compile(q)

\* pool->reset(pool): the memory of the matcher is handed out again;
\* pool->error is not written.
PoolReset ==
  /\ Alive
  /\ matcher' = NoMatcher
  /\ query' = NoValue
  /\ trace_count' = 0
  /\ freed_stacks' = {}
  /\ op' = "pool_reset"
  /\ UNCHANGED <<config, pool_error, last_call, ub, substrate>>

\* The host sets pool->error = NULL.
ErrorClear ==
  /\ Alive
  /\ pool_error # NoError
  /\ pool_error' = NoError
  /\ op' = "error_clear"
  /\ UNCHANGED <<config, matcher, query, trace_count, freed_stacks, last_call, ub, substrate>>

NextSticky == CompileSticky \/ PoolReset \/ ErrorClear \/ PoolNew

SpecSticky == InitInitialised /\ [][NextSticky]_vars

(***************************************************************************)
(* SpecTree: an initialised library; queries whose root is a Composite of  *)
(* two to four children, of equal and of different priorities, are         *)
(* compiled.                                                               *)
(***************************************************************************)
\* Conditions of a field whose Field nodes have the priorities 2.0, 3.0 and
\* 4.7095.
TreeConditions == {VInt(1), T1("$gt", VInt(1)), T1("$in", VArr(<<VInt(1), VInt(2)>>))}

TreeQueries ==
  {T(<< <<"a", x>>, <<"b", y>> >>) : x, y \in TreeConditions}
    \cup {T(<< <<"a", x>>, <<"b", y>>, <<"f", z>> >>) : x, y, z \in TreeConditions}
    \cup {T1("$and", VArr(<<T1("a", x), T(<< <<"b", y>>, <<"f", z>> >>)>>)) :
             x, y, z \in TreeConditions}
    \cup {T1("$and", VArr(<<T(<< <<"a", x>>, <<"b", y>> >>),
                            T(<< <<"f", z>>, <<"g", VInt(1)>> >>)>>)) :
             x, y, z \in TreeConditions}
    \cup {T1("$or", VArr(<<T1("a", x), T1("b", y), T1("f", z)>>)) :
             x, y, z \in TreeConditions}
    \cup {T1("$or", VArr(<<T1("a", x), T(<< <<"b", y>>, <<"f", z>> >>)>>)) :
             x, y, z \in TreeConditions}
    \cup {T1(k, T(<< <<"a", x>>, <<"b", y>> >>)) :
             k \in {"$elemMatch", "$every"}, x, y \in TreeConditions}

CompileTree == \E q \in TreeQueries : Compile(q)

NextTree == PoolNew \/ CompileTree

SpecTree == InitInitialised /\ [][NextTree]_vars

(***************************************************************************)
(* SpecEval: an initialised library; queries whose root is a Composite are *)
(* compiled and matched with Maps and with Arrays of Maps.                 *)
(***************************************************************************)
EvalQueries ==
  {T(<< <<"a", x>>, <<"b", y>> >>) : x, y \in TreeConditions}
    \cup {T1("$and", VArr(<<T1("a", x), T(<< <<"b", y>>, <<"f", VInt(1)>> >>)>>)) :
             x, y \in TreeConditions}
    \cup {T1("$or", VArr(<<T1("a", x), T1("b", y), T1("f", VInt(1))>>)) :
             x, y \in TreeConditions}
    \cup {T1("$or", VArr(<<T1("a", x), T(<< <<"b", y>>, <<"f", VInt(1)>> >>)>>)) :
             x, y \in TreeConditions}
    \cup {T1(k, T(<< <<"a", x>>, <<"b", y>> >>)) :
             k \in {"$elemMatch", "$every"}, x, y \in TreeConditions}

\* Maps with the fields of the queries, and Arrays of such Maps.
TreeMaps == {T(<< <<"a", x>>, <<"b", y>>, <<"f", z>> >>) : x, y, z \in Ints}

TreeRecords ==
  TreeMaps \cup {VArr(<<>>)}
    \cup {VArr(<<T(<< <<"a", x>>, <<"b", y>> >>)>>) : x, y \in Ints}
    \cup {VArr(<<T(<< <<"a", VInt(1)>>, <<"b", x>> >>),
                  T(<< <<"a", y>>, <<"b", VInt(2)>> >>)>>) : x, y \in Ints}

CompileEval == \E q \in EvalQueries : Compile(q)
MatchEval == \E r \in TreeRecords : MatchRecord(r)

NextEval == CompileEval \/ MatchEval

SpecEval == InitInitialised /\ [][NextEval]_vars

(***************************************************************************)
(* SpecTable: a table of a pool of its own, made in memory that calloc has *)
(* just returned or in memory the pool hands out again after a reset; the  *)
(* host sets and deletes keys.  Keys enter the table in the order of       *)
(* KeyOrder; the keys of ChurnKeys are deleted, set again and overwritten  *)
(* at any time.                                                            *)
(***************************************************************************)
KeyOrder ==
  <<"-1", "$present", "$every", "f", "$eq", "$exists", "", "a", "b", "g", "0",
    "1", "2", "-2", "-3", "+1", "1x", "-2147483648", "$ne", "$gt", "$gte",
    "$lt", "$lte", "$in", "$nin", "$regex", "$and", "$elemMatch", "$or">>

TableKeys == {KeyOrder[i] : i \in DOMAIN KeyOrder}

\* "-1", "$present" and "$every" share a bucket of the 17, "$present" and
\* "$and" one of the 37.
ChurnKeys == {"-1", "$present"}

TableValues == {VInt(1), VInt(2)}

\* The key is in the table, or every key before it in KeyOrder is or is one
\* of ChurnKeys.
MaySet(key) ==
  \/ key \in ChurnKeys /\ table_get(table, key) # NoValue
  \/ /\ table_get(table, key) = NoValue
     /\ \A i \in DOMAIN KeyOrder :
          \/ \E j \in 1..i : KeyOrder[j] = key
          \/ KeyOrder[i] \in ChurnKeys
          \/ table_get(table, KeyOrder[i]) # NoValue

\* What a slot that was never written holds when a rehash reads it.
Garbage == IF pool_recycled THEN BOOLEAN ELSE {FALSE}

InitTable ==
  /\ InitWith(InitialisedMapping)

\* The host resets the pool and makes the table anew in it.
TableNewAfterReset ==
  /\ ~table.ub
  /\ table' = mongory_table_new
  /\ pool_recycled' = TRUE
  /\ table_call' = [key |-> "", value |-> NoValue, returned |-> TRUE]
  /\ op' = "table_new"
  /\ UNCHANGED <<matching, evaluators, arena>>

\* table->set(table, key, value)
TableSet ==
  /\ ~table.ub
  /\ \E key \in {k \in TableKeys : MaySet(k)},
        value \in TableValues, garbage \in Garbage :
       /\ (key \in ChurnKeys \/ value = VInt(1))
       /\ table' = table_set(table, key, value, garbage)
       /\ table_call' = [key |-> key, value |-> value, returned |-> TRUE]
  /\ op' = "table_set"
  /\ UNCHANGED <<matching, pool_recycled, evaluators, arena>>

Deleted(key, r) ==
  /\ table' = r.t
  /\ table_call' = [key |-> key, value |-> NoValue, returned |-> r.ok]

\* table->del(table, key)
TableDel ==
  /\ ~table.ub
  /\ \E key \in ChurnKeys \cup {"$foo"} : Deleted(key, table_del(table, key))
  /\ op' = "table_del"
  /\ UNCHANGED <<matching, pool_recycled, evaluators, arena>>

NextTable == TableNewAfterReset \/ TableSet \/ TableDel

SpecTable == InitTable /\ [][NextTable]_vars

(***************************************************************************)
(* SpecArena: a host allocates from an arena, resets it and makes it anew. *)
(***************************************************************************)
\* The arena has at most MaxChunks chunks, its chunk size is doubled at most
\* MaxChunks times, and at most MaxBlocks blocks are taken from it between
\* two resets.
MaxChunks == 3
MaxBlocks == 4

\* The sizes the host asks for: a few bytes, most of the first chunk, the
\* whole first chunk, more than the second chunk.
AllocSizes == {1, 1001, 2048, 5000}

Allocated(r) ==
  /\ Len(r.ctx.chunks) <= MaxChunks
  /\ r.ctx.chunk_size <= MONGORY_INITIAL_CHUNK_SIZE * 2^MaxChunks
  /\ pool' = r.ctx
  /\ blocks' = IF r.block = NoBlock THEN blocks ELSE Append(blocks, r.block)

\* pool->alloc(pool, size)
ArenaAlloc ==
  /\ Len(blocks) < MaxBlocks
  /\ \E size \in AllocSizes, calloc_fails \in BOOLEAN :
       Allocated(mongory_memory_pool_alloc(pool, size, calloc_fails))
  /\ op' = "alloc"
  /\ UNCHANGED <<matching, tables, evaluators>>

\* pool->reset(pool)
ArenaReset ==
  /\ pool' = mongory_memory_pool_reset(pool)
  /\ blocks' = <<>>
  /\ op' = "reset"
  /\ UNCHANGED <<matching, tables, evaluators>>

\* pool->free(pool) and mongory_memory_pool_new()
ArenaNew ==
  /\ pool' = mongory_memory_pool_new
  /\ blocks' = <<>>
  /\ op' = "arena_new"
  /\ UNCHANGED <<matching, tables, evaluators>>

NextArena == ArenaAlloc \/ ArenaReset \/ ArenaNew

SpecArena == InitInitialised /\ [][NextArena]_vars

(***************************************************************************)
(* SpecThreads: two threads evaluate one compiled tree, each calling       *)
(* mongory_matcher_literal_match on the Literal-wrapper they share.  The   *)
(* function takes no lock and its accesses to array_record_matcher are     *)
(* plain loads and stores, so that its steps interleave freely.            *)
(***************************************************************************)
At(t, pc) == threads[t].pc = pc

Goto(t, pc) == threads' = [threads EXCEPT ![t].pc = pc]

\* The host compiles the tree anew while no thread evaluates it.
LiteralCompile ==
  /\ \A t \in Evaluators : At(t, "idle")
  /\ literal # LiteralNew
  /\ literal' = LiteralNew
  /\ threads' = [t \in Evaluators |-> Idle]
  /\ op' = "literal_compile"
  /\ UNCHANGED <<matching, tables, arena>>

\* literal_matcher.c:57: the thread enters literal_match with an Array value
\* or with another one.
LiteralEnter(t) ==
  /\ At(t, "idle")
  /\ \E is_array \in BOOLEAN :
       threads' = [threads EXCEPT ![t] =
                     [pc |-> IF is_array THEN "test" ELSE "delegate", built |-> 0,
                      called |-> 0]]
  /\ op' = "literal_enter"
  /\ UNCHANGED <<matching, tables, arena, literal>>

\* literal_matcher.c:61: if (literal->array_record_matcher == NULL)
LiteralTest(t) ==
  /\ At(t, "test")
  /\ Goto(t, IF literal.array_record_matcher = 0 THEN "new" ELSE "call")
  /\ op' = "literal_test"
  /\ UNCHANGED <<matching, tables, arena, literal>>

\* literal_matcher.c:64, the right-hand side: mongory_matcher_array_record_new
\* constructs a child, the n-th one of this tree.
LiteralConstruct(t) ==
  /\ At(t, "new")
  /\ literal' = [literal EXCEPT !.constructed = @ + 1]
  /\ threads' = [threads EXCEPT ![t].pc = "store", ![t].built = literal.constructed + 1]
  /\ op' = "literal_construct"
  /\ UNCHANGED <<matching, tables, arena>>

\* literal_matcher.c:64, the assignment to literal->array_record_matcher.
LiteralStore(t) ==
  /\ At(t, "store")
  /\ literal' = [literal EXCEPT !.array_record_matcher = threads[t].built,
                                !.published = @ + 1]
  /\ Goto(t, "call")
  /\ op' = "literal_store"
  /\ UNCHANGED <<matching, tables, arena>>

\* literal_matcher.c:67: the child the pointer holds now is called, and the
\* thread returns.
LiteralCall(t) ==
  /\ At(t, "call")
  /\ threads' = [threads EXCEPT ![t].pc = "idle",
                                ![t].called = literal.array_record_matcher]
  /\ op' = "literal_call"
  /\ UNCHANGED <<matching, tables, arena, literal>>

\* literal_matcher.c:71: the delegate is called, and the thread returns.
LiteralDelegate(t) ==
  /\ At(t, "delegate")
  /\ Goto(t, "idle")
  /\ op' = "literal_delegate"
  /\ UNCHANGED <<matching, tables, arena, literal>>

LiteralMatchStep(t) ==
  \/ LiteralEnter(t)
  \/ LiteralTest(t)
  \/ LiteralConstruct(t)
  \/ LiteralStore(t)
  \/ LiteralCall(t)
  \/ LiteralDelegate(t)

NextThreads == LiteralCompile \/ \E t \in Evaluators : LiteralMatchStep(t)

SpecThreads == InitInitialised /\ [][NextThreads]_vars

(***************************************************************************)
(* SpecTrace: an initialised library; a matcher is matched and traced, and *)
(* the host frees the pools of the records it has traced.                  *)
(***************************************************************************)
TraceQueries ==
  {T1("f", VInt(1)), T1("f", VNull), T1("f", T1("$gt", VInt(1))),
   T1("f", T1("a", VInt(1))), T1("f", VArr(<<VInt(1)>>)),
   T(<< <<"a", VInt(1)>>, <<"b", VInt(1)>> >>),
   T1("$elemMatch", T1("a", VInt(1))), T1("$not", VInt(1)), T1("0", VInt(1))}

TraceRecords ==
  {T1("f", VInt(1)), T1("f", VArr(<<VInt(1)>>)), T1("f", VArr(<<VInt(2)>>)),
   T1("f", T1("a", VInt(1))), T1("f", VArr(<<T1("a", VInt(1))>>)),
   T(<< <<"a", VInt(1)>>, <<"b", VInt(1)>> >>), VArr(<<T1("a", VInt(1))>>),
   VInt(1), VArr(<<VInt(1)>>)}

CompileTraced == \E q \in TraceQueries : Compile(q)
MatchTraced == \E r \in TraceRecords : MatchRecord(r)
TraceTraced == \E r \in TraceRecords : TraceRecord(r)

NextTrace == CompileTraced \/ MatchTraced \/ TraceTraced \/ FreeRecordPool

SpecTrace == InitInitialised /\ [][NextTrace]_vars

(***************************************************************************)
(* SpecLines: an initialised library; a matcher is compiled and traced on  *)
(* one record after another.                                               *)
(***************************************************************************)
NextLines == CompileTraced \/ TraceTraced

SpecLines == InitInitialised /\ [][NextLines]_vars

(***************************************************************************)
(* The properties.  MatchQ is match(compile(q), r): the query compiled on  *)
(* a pool without an error, and the tree matched before any other call.    *)
(***************************************************************************)
MatchQ(q, r) == Match(mongory_matcher_new(q, NoError, G).m, r, G, NoError).r

\* The condition c of a query {k: c} and its key k.
KeyOf(q) == q.t[1][1]
ConditionOf(q) == q.t[1][2]

\* Every node of the tree m calls its original match function and holds no
\* trace stack.
RECURSIVE Untraced(_)
Untraced(m) ==
  \/ m = NoMatcher
  \/ /\ m.match = m.original_match
     /\ m.trace_stack = 0
     /\ \A i \in 1..Len(m.children) : Untraced(m.children[i])
     /\ Untraced(m.delegate_matcher)
     /\ Untraced(m.array_record_matcher)

\* Some Literal-wrapper of the tree m has built its array_record child.
RECURSIVE ArrayRecordBuilt(_)
ArrayRecordBuilt(m) ==
  /\ m # NoMatcher
  /\ \/ m.array_record_matcher # NoMatcher
     \/ \E i \in 1..Len(m.children) : ArrayRecordBuilt(m.children[i])
     \/ ArrayRecordBuilt(m.delegate_matcher)

\* C1: when trace(matcher, record) has returned, every node of the tree, the
\* delegate and the array_record child of every Literal-wrapper included, has
\* its original match function and no trace stack, so that a later plain
\* match pushes no trace entry.
C1_TraceRestoresEveryNode ==
  /\ op = "trace" => Untraced(matcher)
  /\ op = "match" => stale_pushes = <<>>

\* C2: a match on a tree that earlier matches have been through returns what
\* it returns on the tree as compiled, whatever array_record children the
\* earlier matches have built.
C2_MatchIgnoresEarlierMatches ==
  op = "match" => result = MatchQ(query, record)

\* An array_record child built by an earlier match is there, and the match
\* that has just returned true read a field that holds no Array.
C2_Witness ==
  /\ op = "match"
  /\ query = T1("f", VInt(1))
  /\ record = T1("f", VInt(1))
  /\ ArrayRecordBuilt(matcher)
  /\ result = TRUE

\* The last call matched {f: c}, c a literal condition, against {f: [e1..en]}.
LiteralOnArray ==
  /\ op = "match"
  /\ query \in LiteralQueries
  /\ record.type = "Table"
  /\ Len(record.t) = 1
  /\ KeyOf(record) = "f"
  /\ ConditionOf(record).type = "Array"

\* C3 as the specification states it: {f: c} matches {f: [e1..en]} exactly
\* when it matches {f: ei} for some i or, c being an array, when the array
\* is c.
C3_ArrayDuality ==
  LiteralOnArray =>
    result = (\/ \E i \in 1..Len(ConditionOf(record).a) :
                   MatchQ(query, T1("f", ConditionOf(record).a[i]))
              \/ /\ ConditionOf(query).type = "Array"
                 /\ ConditionOf(record) = ConditionOf(query))

\* C3 as the code has it: {f: c} matches {f: [e1..en]} exactly when some ei
\* satisfies {$eq: c}, the elements not going through the rule of arrays
\* again, or, c being an array, when the array satisfies {$eq: c}.
C3_ArrayDualityByEq ==
  LiteralOnArray =>
    result = (\/ \E i \in 1..Len(ConditionOf(record).a) :
                   MatchQ(T1("$eq", ConditionOf(query)), ConditionOf(record).a[i])
              \/ /\ ConditionOf(query).type = "Array"
                 /\ MatchQ(T1("$eq", ConditionOf(query)), ConditionOf(record)))

\* {f: 1} has met {f: [[1]]}, whose only element is an array that holds 1,
\* and has not matched.
C3_Witness ==
  /\ LiteralOnArray
  /\ query = T1("f", VInt(1))
  /\ record = T1("f", VArr(<<VArr(<<VInt(1)>>)>>))
  /\ result = FALSE

\* The key starts with '$', the registry holds no constructor for it, and
\* the lookup of the external adapter is not installed or returns false.
UnknownOperator(key) ==
  /\ IsOperatorKey(key)
  /\ mongory_matcher_build_func_get(key, G) = "NULL"
  /\ ~(G.custom.lookup.set /\ key \in G.custom.lookup.keys)

\* C4: compiling a query one of whose keys is an unknown operator returns no
\* matcher and leaves the error InvalidArgument in the pool.
C4_UnknownOperatorFails ==
  (/\ op = "compile"
   /\ \E i \in 1..Len(query.t) : UnknownOperator(query.t[i][1]))
    => (matcher = NoMatcher /\ pool_error.type = MONGORY_ERROR_INVALID_ARGUMENT)

\* Whether the record v satisfies the conjunction of the entries of the map m.
SatisfiesAll(m, v) ==
  \A j \in 1..Len(m.t) : MatchQ(T1(m.t[j][1], m.t[j][2]), v)

\* C5: {$elemMatch: m} matches v exactly when v is a non-empty Array one of
\* whose elements satisfies every entry of m, the empty map m included.
C5_ElemMatchSomeElement ==
  (op = "match" /\ query \in ElemMatchQueries) =>
    result = (/\ record.type = "Array"
              /\ Len(record.a) > 0
              /\ \E i \in 1..Len(record.a) : SatisfiesAll(ConditionOf(query), record.a[i]))

\* C6: {$every: m} matches v exactly when v is a non-empty Array all of whose
\* elements satisfy every entry of m, the empty map m included.
C6_EveryAllElements ==
  (op = "match" /\ query \in EveryQueries) =>
    result = (/\ record.type = "Array"
              /\ Len(record.a) > 0
              /\ \A i \in 1..Len(record.a) : SatisfiesAll(ConditionOf(query), record.a[i]))

\* C7: {f: {"0": x}} matches {f: [e0, ...]} exactly when e0, the element at
\* index 0, satisfies x as the value of a field.
C7_IndexKeyOnArray ==
  (/\ op = "match"
   /\ query \in {T1("f", T1("0", VInt(x))) : x \in 1..MaxInt}
   /\ record.type = "Table"
   /\ Len(record.t) = 1
   /\ KeyOf(record) = "f"
   /\ ConditionOf(record).type = "Array")
    => result = (/\ Len(ConditionOf(record).a) > 0
                 /\ MatchQ(T1("g", ConditionOf(ConditionOf(query))),
                           T1("g", ConditionOf(record).a[1])))

\* The field names of IndexKeys that are signed integers, and the integers.
IntegerKeys == {"0", "1", "2", "-1", "-2", "-3", "+1", "-2147483648"}

IntegerOf(key) ==
  CASE key = "0" -> 0
    [] key = "1" -> 1
    [] key = "2" -> 2
    [] key = "-1" -> -1
    [] key = "-2" -> -2
    [] key = "-3" -> -3
    [] key = "+1" -> 1
    [] key = "-2147483648" -> INT_MIN

\* The value the specification has a Field node named key read in an Array of
\* items: NoValue where the node does not match.
ElementNamed(key, items) ==
  IF key \notin IntegerKeys THEN NoValue
  ELSE IF 0 <= IntegerOf(key) /\ IntegerOf(key) < Len(items)
  THEN items[IntegerOf(key) + 1]
  ELSE IF -Len(items) <= IntegerOf(key) /\ IntegerOf(key) < 0
  THEN items[Len(items) + IntegerOf(key) + 1]
  ELSE NoValue

\* C8: a Field node named k with condition c, on an Array record of length n,
\* matches as c matches r[k] for 0 <= k < n and r[n+k] for -n <= k < 0; for
\* any other name, and on a record that is neither a Map nor an Array, it
\* does not match.
C8_FieldOnArray ==
  (op = "match" /\ query \in IndexQueries /\ record.type # "Table") =>
    result = (/\ record.type = "Array"
              /\ ElementNamed(KeyOf(query), record.a) # NoValue
              /\ MatchQ(T1("g", ConditionOf(query)),
                        T1("g", ElementNamed(KeyOf(query), record.a))))

\* {"-1": 1} has matched [2, 1] through the last element.
C8_Witness ==
  /\ op = "match"
  /\ query = T1("-1", VInt(1))
  /\ record = VArr(<<VInt(2), VInt(1)>>)
  /\ result = TRUE

\* The last call matched {f: null} against a Map.
NullOnMap ==
  /\ op = "match"
  /\ query = T1("f", VNull)
  /\ record.type = "Table"

\* C9 as the specification states it: {f: null} matches a Map exactly when f
\* is absent from it or holds Null.
C9_NullMatchesAbsentOrNull ==
  NullOnMap =>
    result = (\/ mongory_table_get(record.t, "f") = NoValue
              \/ mongory_table_get(record.t, "f") = VNull)

\* C9 as the code has it: {f: null} matches a Map exactly when f is absent
\* from it, holds Null, or holds an Array with a Null element.
C9_NullMatchesAbsentNullOrArrayOfNull ==
  NullOnMap =>
    result = (\/ mongory_table_get(record.t, "f") = NoValue
              \/ mongory_table_get(record.t, "f") = VNull
              \/ /\ mongory_table_get(record.t, "f").type = "Array"
                 /\ \E i \in 1..Len(mongory_table_get(record.t, "f").a) :
                      mongory_table_get(record.t, "f").a[i] = VNull)

\* {f: null} has matched {f: [null]}.
C9_Witness ==
  /\ NullOnMap
  /\ record = T1("f", VArr(<<VNull>>))
  /\ result = TRUE

\* C10: {$and: [m1..mn]} matches r exactly when every entry of every mi
\* matches r, each entry on its own whatever keys the maps share; without an
\* entry it matches every record.
C10_AndFlattens ==
  (op = "match" /\ query \in AndQueries) =>
    result = (\A i \in 1..Len(ConditionOf(query).a) :
                SatisfiesAll(ConditionOf(query).a[i], record))

\* {$and: [{a: 1}, {a: 2}]} has refused {a: 2}, which its last map accepts.
C10_Witness ==
  /\ op = "match"
  /\ query = T1("$and", VArr(<<T1("a", VInt(1)), T1("a", VInt(2))>>))
  /\ record = T1("a", VInt(2))
  /\ result = FALSE

\* C11: {$or: [m1..mn]} matches r exactly when the matcher compiled of some
\* mi on its own matches r; without a map it matches no record.
C11_OrOfIndependentMaps ==
  (op = "match" /\ query \in OrQueries) =>
    result = (\E i \in 1..Len(ConditionOf(query).a) :
                MatchQ(ConditionOf(query).a[i], record))

\* {$or: [{a: 1, b: 1}, {a: 2}]} has refused {a: 1, b: 2}, which satisfies
\* one entry of the first map and none of the second.
C11_Witness ==
  /\ op = "match"
  /\ query = T1("$or", VArr(<<T(<< <<"a", VInt(1)>>, <<"b", VInt(1)>> >>),
                              T1("a", VInt(2))>>))
  /\ record = T(<< <<"a", VInt(1)>>, <<"b", VInt(2)>> >>)
  /\ result = FALSE

\* What the Field node for the key k with the subcondition c returns on r.
FieldNodeResult(k, c, r) ==
  Match(mongory_matcher_field_new(k, c, NoError, G).m, r, G, NoError).r

\* C12: a Map query whose keys are all field names matches r exactly when
\* the Field node of every entry matches r, wherever the sort by priority
\* has put it; the empty Map matches every record.
C12_MapIsAndOfFields ==
  (op = "match" /\ query \in PlainMapQueries) =>
    result = (\A j \in 1..Len(query.t) :
                FieldNodeResult(query.t[j][1], query.t[j][2], record))

\* {a: {$in: [1, 2]}, b: 1}, whose children the sort has put in the order b,
\* a, has refused {a: 1, b: 2}.
C12_Witness ==
  /\ op = "match"
  /\ query = T(<< <<"a", T1("$in", VArr(<<VInt(1), VInt(2)>>))>>, <<"b", VInt(1)>> >>)
  /\ matcher.children[1].field = "b"
  /\ record = T(<< <<"a", VInt(1)>>, <<"b", VInt(2)>> >>)
  /\ result = FALSE

\* C13: {f: {$not: {$eq: x}}} matches a record exactly when {f: {$ne: x}}
\* does, x being a primitive, whether f is missing, holds a value that
\* compares with x, or holds one that does not.
C13_NotEqIsNe ==
  (op = "match" /\ query \in NotEqualQueries) =>
    result = MatchQ(T1("f", T1("$ne", ConditionOf(ConditionOf(ConditionOf(query))))),
                    record)

\* {f: {$not: {$eq: 1}}} has matched {f: "a"}, which does not compare with 1.
C13_Witness ==
  /\ op = "match"
  /\ query = T1("f", T1("$not", T1("$eq", VInt(1))))
  /\ record = T1("f", VStr("a"))
  /\ result = TRUE

\* Whether the value v compares equal to some element of the array arr.
EqualsSomeOf(v, arr) ==
  \E j \in 1..Len(arr) : mongory_value_compare(v, arr[j]) = 0

\* What the specification has {$in: arr} return on v.
InSpec(arr, v) ==
  IF v = NoValue THEN FALSE
  ELSE IF v.type = "Array" THEN \E i \in 1..Len(v.a) : EqualsSomeOf(v.a[i], arr)
  ELSE EqualsSomeOf(v, arr)

\* C14: {$in: arr} matches an Array when one of its elements compares equal
\* to an element of arr, and any other present value when the value does;
\* {$nin: arr} matches exactly the values {$in: arr} does not, the missing
\* value included.
C14_InAndNin ==
  /\ (op = "match" /\ query \in InQueries) =>
        result = InSpec(ConditionOf(query).a, record)
  /\ (op = "match" /\ query \in NinQueries) =>
        result = ~InSpec(ConditionOf(query).a, record)

\* {$in: [1]} has accepted the Array [1] through its element.
C14_Witness ==
  /\ op = "match"
  /\ query = T1("$in", VArr(<<VInt(1)>>))
  /\ record = VArr(<<VInt(1)>>)
  /\ result = TRUE

\* How v compares with c: "none" for a missing v and for a pair that does
\* not compare.
Ordering(v, c) ==
  IF v = NoValue THEN "none"
  ELSE CASE mongory_value_compare(v, c) = 1 -> "greater"
         [] mongory_value_compare(v, c) = -1 -> "less"
         [] mongory_value_compare(v, c) = 0 -> "equal"
         [] OTHER -> "none"

\* C15: $gt holds exactly of v > c, $lt of v < c, $gte of v > c or v = c and
\* $lte of v < c or v = c; none holds of a missing v or of a pair that does
\* not compare.
C15_OrderOperators ==
  (op = "match" /\ query \in OrderQueries) =>
    result = CASE KeyOf(query) = "$gt" -> Ordering(record, ConditionOf(query)) = "greater"
               [] KeyOf(query) = "$lt" -> Ordering(record, ConditionOf(query)) = "less"
               [] KeyOf(query) = "$gte" ->
                    Ordering(record, ConditionOf(query)) \in {"greater", "equal"}
               [] KeyOf(query) = "$lte" ->
                    Ordering(record, ConditionOf(query)) \in {"less", "equal"}

\* {$gte: 1} has refused "a", which does not compare with 1.
C15_Witness ==
  /\ op = "match"
  /\ query = T1("$gte", VInt(1))
  /\ record = VStr("a")
  /\ result = FALSE

\* The truthy presence of a value.
TruthyPresence(v) ==
  CASE v = NoValue -> FALSE
    [] v = VNull -> FALSE
    [] v.type = "Array" -> v.a # <<>>
    [] v.type = "Table" -> v.t # <<>>
    [] v.type = "String" -> v.s # ""
    [] v.type = "Bool" -> v.b
    [] OTHER -> TRUE

\* C16: {$present: b} matches a value exactly when its truthy presence is b.
C16_PresentIsTruthy ==
  (op = "match" /\ query \in PresentQueries) =>
    result = (TruthyPresence(record) = ConditionOf(query).b)

\* {$present: true} has refused the empty String.
C16_Witness ==
  /\ op = "match"
  /\ query = T1("$present", VBool(TRUE))
  /\ record = VStr("")
  /\ result = FALSE

\* C17: a call of trace returns the boolean that match returns on the tree
\* as the call finds it.
C17_TraceReturnsMatch ==
  [][op' = "trace" => result' = Match(matcher, record', G, pool_error).r]_vars

\* The custom operator key is one the lookup callback of the host knows.
KnownCustom(key) ==
  /\ IsOperatorKey(key)
  /\ mongory_matcher_build_func_get(key, G) = "NULL"
  /\ G.custom.lookup.set
  /\ key \in G.custom.lookup.keys

\* The query holds, at some depth, a condition its constructor refuses: a
\* built-in one, or $foo with the Null the strict callback of the host
\* refuses.
HoldsRefusedCondition(q) ==
  \/ q \in ShapeQueries \cup BoolQueries \cup RegexQueries
  \/ /\ q \in {T1("$foo", VNull), T1("f", T1("$foo", VNull))}
     /\ KnownCustom("$foo")
     /\ G.custom.build = "strict"

\* C18: compiling a query that holds a condition its constructor refuses, at
\* whatever depth, returns no matcher and leaves an error in the pool.
C18_RefusedConditionFails ==
  (op = "compile" /\ HoldsRefusedCondition(query)) =>
    (matcher = NoMatcher /\ pool_error # NoError)

\* C18 for the built-in constructors alone.
C18_BuiltinRefusalFails ==
  (op = "compile" /\ query \in ShapeQueries \cup BoolQueries \cup RegexQueries) =>
    (matcher = NoMatcher /\ pool_error # NoError)

\* C19: on a pool without an error, a compilation that fails on a condition
\* of the wrong shape ($in or $nin without an Array, $and or $or without an
\* Array of Maps, $elemMatch or $every without a Map) leaves the error kind
\* InvalidType, and one that fails on $exists or $present without a Bool
\* leaves the error kind InvalidArgument.
C19_ErrorKinds ==
  [][(op' = "compile" /\ pool_error = NoError) =>
       /\ query' \in ShapeQueries => pool_error'.type = MONGORY_ERROR_INVALID_TYPE
       /\ query' \in BoolQueries => pool_error'.type = MONGORY_ERROR_INVALID_ARGUMENT]_vars

\* What the constructors do: each of these failures leaves InvalidArgument.
C19_AlwaysInvalidArgument ==
  [][(op' = "compile" /\ pool_error = NoError
        /\ query' \in ShapeQueries \cup BoolQueries \cup RegexQueries) =>
       pool_error'.type = MONGORY_ERROR_INVALID_ARGUMENT]_vars

\* The names a lookup in the registry is made with: the built-in ones and
\* one that is not built in.
LookupNames == BuiltinNames \cup {"$foo"}

\* The registry maps exactly the seventeen built-in names, each to its
\* constructor.
RegistryFull(g) ==
  /\ g.mapping.init
  /\ Cardinality(g.mapping.names) = 17
  /\ \A name \in LookupNames :
       mongory_matcher_build_func_get(name, g) =
         IF name \in BuiltinNames THEN name ELSE "NULL"

\* The registry is absent and every lookup finds nothing.
RegistryAbsent(g) ==
  /\ g.mapping = NullMapping
  /\ \A name \in LookupNames : mongory_matcher_build_func_get(name, g) = "NULL"

\* C20: whatever went before, after mongory_init the registry maps exactly
\* the seventeen built-in names to their constructors, and after
\* mongory_cleanup it is absent and every lookup finds nothing; no other call
\* changes the registry; a call of mongory_init right after mongory_init, and
\* of mongory_cleanup right after mongory_cleanup, changes nothing at all.
C20_LifecycleIdempotent ==
  [][/\ op' = "init" => RegistryFull(G')
     /\ op' = "cleanup" => RegistryAbsent(G')
     /\ op' \notin {"init", "cleanup"} => mongory_matcher_mapping' = mongory_matcher_mapping
     /\ (op' = op /\ op \in {"init", "cleanup"}) => vars' = vars]_vars

\* mongory_init has restored the registry for a matcher that was compiled
\* while the registry was absent: its $exists is the name of a field.
C20_Witness ==
  /\ op = "init"
  /\ RegistryFull(G)
  /\ query = T1("$exists", VInt(1))
  /\ matcher # NoMatcher

\* The nodes of the chains of the table.
RECURSIVE ChainLengths(_, _)
ChainLengths(items, i) ==
  IF i > Len(items) THEN 0 ELSE Len(items[i]) + ChainLengths(items, i + 1)

\* The keys get finds in the table.
KeysPresent(t) == {k \in Strings : table_get(t, k) # NoValue}

\* get after a call on key: the value set, nothing after a del, and for
\* every other key what get returned before.
GetFollows(t, call, was_set, before) ==
  \A k \in Strings :
    table_get(t, k) =
      IF k # call.key THEN table_get(before, k)
      ELSE IF was_set THEN call.value ELSE NoValue

\* count is the number of keys present, and no key has two nodes.
CountIsKeys(t) ==
  /\ t.count = Cardinality(KeysPresent(t))
  /\ t.count = ChainLengths(t.items, 1)

\* C21: after every set and del the table answers get with the value of the
\* last set of the key that no del followed, and with nothing otherwise;
\* count is the number of keys present; a rehash loses and duplicates none.
C21_TableIsMap ==
  [][op' \in {"table_set", "table_del"} =>
       /\ ~table'.ub
       /\ GetFollows(table', table_call', op' = "table_set", table)
       /\ CountIsKeys(table')]_vars

\* C21 for the calls in which no rehash follows a pointer it read from a
\* slot that was never written.
C21_TableIsMapInFreshMemory ==
  [][(op' \in {"table_set", "table_del"} /\ ~table'.ub) =>
       /\ GetFollows(table', table_call', op' = "table_set", table)
       /\ CountIsKeys(table')]_vars

\* The table has been rehashed twice and holds all its keys.
C21_RehashedTwice ==
  table.capacity = 79 /\ ~table.ub /\ table.count >= 28

\* The sub-matchers the constructor of the root of the query builds, in the
\* order in which it pushes them, before it sorts them.
Constructed(q) ==
  CASE KeyOf(q) = "$and" -> AndBuildAll(ConditionOf(q).a, <<>>, NoError, G).matchers
    [] KeyOf(q) = "$or" -> OrBuildAll(ConditionOf(q).a, <<>>, NoError, G).matchers
    [] KeyOf(q) \in {"$elemMatch", "$every"} ->
         mongory_matcher_build_and_sub_matcher(ConditionOf(q), <<>>, NoError, G).matchers
    [] OTHER -> mongory_table_each_build(q.t, <<>>, NoError, G).matchers

\* The integer key the children are sorted by.
SortKey(m) == mongory_matcher_calc_priority(m)

PositionIn(children, m) == CHOOSE p \in 1..Len(children) : children[p] = m

\* Children of equal key are in sorted in the order they have in inserted.
StableSort(inserted, sorted) ==
  \A i, j \in 1..Len(inserted) :
    (i < j /\ SortKey(inserted[i]) = SortKey(inserted[j])) =>
      PositionIn(sorted, inserted[i]) < PositionIn(sorted, inserted[j])

\* C22: in the child list of a Composite two children of equal sort key
\* stand in the order in which they were inserted.
C22_SortIsStable ==
  (op = "compile" /\ matcher # NoMatcher) =>
    StableSort(Constructed(query), matcher.children)

\* The child list is in non-decreasing order of the sort key.
NonDecreasing(children) ==
  \A i \in 1..(Len(children) - 1) : SortKey(children[i]) <= SortKey(children[i + 1])

\* The child list holds every constructed sub-matcher once and nothing else.
PermutationOf(children, inserted) ==
  /\ Len(children) = Len(inserted)
  /\ \A i \in 1..Len(inserted) :
       Cardinality({p \in 1..Len(children) : children[p] = inserted[i]})
         = Cardinality({p \in 1..Len(inserted) : inserted[p] = inserted[i]})

\* Every Composite of the tree has its children in order and counted.
RECURSIVE CompositesOrdered(_)
CompositesOrdered(m) ==
  /\ m.traverse = "composite_traverse" =>
       /\ NonDecreasing(m.children)
       /\ m.sub_count = Len(m.children)
       /\ \A i \in 1..Len(m.children) : CompositesOrdered(m.children[i])
  /\ m.traverse = "literal_traverse" => CompositesOrdered(m.delegate_matcher)

\* C23: in a compiled tree the child list of every Composite is in
\* non-decreasing order of the integer key priority * 10000 and sub_count is
\* its length; the child list of the root is a permutation of the
\* sub-matchers its constructor built.
C23_ChildrenSorted ==
  (op = "compile" /\ matcher # NoMatcher) =>
    /\ CompositesOrdered(matcher)
    /\ PermutationOf(matcher.children, Constructed(query))

\* A Condition of three children of three different priorities that were
\* built in decreasing order of priority.
C23_Witness ==
  /\ op = "compile"
  /\ query = T(<< <<"a", T1("$in", VArr(<<VInt(1), VInt(2)>>))>>,
                  <<"b", T1("$gt", VInt(1))>>, <<"f", VInt(1)>> >>)
  /\ matcher.name = "Condition"
  /\ matcher.sub_count = 3
  /\ matcher.children[1].field = "f"

\* What one evaluation of a node on a value is seen to be: the node by its
\* name, field and condition, the value, and what the node returned.
Seen(m, v, r) ==
  [name |-> m.name, field |-> IF m.name = "Field" THEN m.field ELSE "",
   condition |-> m.condition, record |-> v, matched |-> r]

\* What the child returns on the value when it is evaluated by itself.
ChildReturns(child, v) == Match(child, v, G, NoError).r

\* The evaluations of the children from child i on that and_match (stop_on
\* FALSE) and or_match (stop_on TRUE) are to make on v: in the order of the
\* child list, and none after the first child that returns stop_on.
RECURSIVE ChildrenInOrder(_, _, _, _)
ChildrenInOrder(children, v, stop_on, i) ==
  IF i > Len(children) THEN <<>>
  ELSE <<Seen(children[i], v, ChildReturns(children[i], v))>>
         \o (IF ChildReturns(children[i], v) = stop_on THEN <<>>
             ELSE ChildrenInOrder(children, v, stop_on, i + 1))

AllChildren(children, v) ==
  \A i \in 1..Len(children) : ChildReturns(children[i], v)

\* The evaluations $elemMatch (stop_on TRUE) and $every (stop_on FALSE) are
\* to make on the elements from element j on: in the order of the index, and
\* none after the first element that decides.
RECURSIVE ElementsInOrder(_, _, _, _)
ElementsInOrder(children, items, stop_on, j) ==
  IF j > Len(items) THEN <<>>
  ELSE ChildrenInOrder(children, items[j], FALSE, 1)
         \o (IF AllChildren(children, items[j]) = stop_on THEN <<>>
             ELSE ElementsInOrder(children, items, stop_on, j + 1))

ExpectedOrder(m, v) ==
  CASE m.name \in {"Condition", "And"} -> ChildrenInOrder(m.children, v, FALSE, 1)
    [] m.name = "Or" -> ChildrenInOrder(m.children, v, TRUE, 1)
    [] m.name = "ElemMatch" ->
         IF v.type = "Array" THEN ElementsInOrder(m.children, v.a, TRUE, 1) ELSE <<>>
    [] m.name = "Every" ->
         IF v.type = "Array" THEN ElementsInOrder(m.children, v.a, FALSE, 1) ELSE <<>>

\* The evaluations of the children of the root that the pushes of a traced
\* evaluation show, in the order in which they were made.
RECURSIVE ChildEvaluations(_)
ChildEvaluations(tr) ==
  IF tr = <<>> THEN <<>>
  ELSE IF Head(tr).level = 1
  THEN <<[name |-> Head(tr).name, field |-> Head(tr).field,
          condition |-> Head(tr).condition, record |-> Head(tr).record,
          matched |-> Head(tr).matched]>> \o ChildEvaluations(Tail(tr))
  ELSE ChildEvaluations(Tail(tr))

ObservedOrder(m, v) ==
  ChildEvaluations(Match(mongory_matcher_enable_trace(m, 1), v, G, NoError).tr)

\* C24: an evaluation of And evaluates the children in the order of the child
\* list and none after the first that returns false, that of Or none after
\* the first that returns true; $elemMatch and $every go through the
\* elements by increasing index and stop at the first element that decides.
C24_EvaluationOrder ==
  (op = "match" /\ matcher.traverse = "composite_traverse") =>
    ObservedOrder(matcher, record) = ExpectedOrder(matcher, record)

\* $every has stopped at the first of two elements, after the second of its
\* children.
C24_Witness ==
  /\ op = "match"
  /\ matcher.name = "Every"
  /\ record.type = "Array" /\ Len(record.a) = 2
  /\ Len(ExpectedOrder(matcher, record)) = 2
  /\ ~result

\* The entry a node traced on stack id records when it is evaluated on v at
\* the given depth of the tree.
RecordedEntry(m, v, depth) ==
  [stack |-> m.trace_stack, level |-> depth, name |-> m.name,
   matched |-> ChildReturns(m, v),
   field |-> IF m.name = "Field" THEN m.field ELSE "",
   condition |-> m.condition, record |-> v]

\* The entries of one evaluation of m on v in pre-order: the entry of m, when
\* m records on stack id, and then those of the evaluations it invokes, each
\* one level deeper, in the order in which it invokes them.
RECURSIVE EvaluationPreOrder(_, _, _, _)

RECURSIVE ChildrenPreOrder(_, _, _, _, _, _)
ChildrenPreOrder(children, v, stop_on, i, depth, id) ==
  IF i > Len(children) THEN <<>>
  ELSE EvaluationPreOrder(children[i], v, depth, id)
         \o (IF ChildReturns(children[i], v) = stop_on THEN <<>>
             ELSE ChildrenPreOrder(children, v, stop_on, i + 1, depth, id))

RECURSIVE ElementsPreOrder(_, _, _, _, _, _)
ElementsPreOrder(children, items, stop_on, j, depth, id) ==
  IF j > Len(items) THEN <<>>
  ELSE ChildrenPreOrder(children, items[j], FALSE, 1, depth, id)
         \o (IF AllChildren(children, items[j]) = stop_on THEN <<>>
             ELSE ElementsPreOrder(children, items, stop_on, j + 1, depth, id))

\* A Literal-wrapper invokes its array_record child on an Array and its
\* delegate on any other value; an array_record child that it builds during
\* the evaluation was not there to be traced and records nothing.
LiteralPreOrder(m, v, depth, id) ==
  IF v.type = "Array"
  THEN IF m.array_record_matcher = NoMatcher THEN <<>>
       ELSE EvaluationPreOrder(m.array_record_matcher, v, depth, id)
  ELSE IF m.delegate_matcher = NoMatcher THEN <<>>
  ELSE EvaluationPreOrder(m.delegate_matcher, v, depth, id)

FieldPreOrder(m, f, depth, id) ==
  IF ~f.found THEN <<>> ELSE LiteralPreOrder(m, f.value, depth, id)

SubEvaluations(m, v, depth, id) ==
  CASE m.original_match = "and_match" -> ChildrenPreOrder(m.children, v, FALSE, 1, depth, id)
    [] m.original_match = "or_match" -> ChildrenPreOrder(m.children, v, TRUE, 1, depth, id)
    [] m.original_match = "elem_match_match" ->
         IF v.type = "Array" THEN ElementsPreOrder(m.children, v.a, TRUE, 1, depth, id)
         ELSE <<>>
    [] m.original_match = "every_match" ->
         IF v.type = "Array" THEN ElementsPreOrder(m.children, v.a, FALSE, 1, depth, id)
         ELSE <<>>
    [] m.original_match = "field_match" ->
         FieldPreOrder(m, FieldValue(m.field, v), depth, id)
    [] m.original_match = "not_match" -> LiteralPreOrder(m, v, depth, id)
    [] m.original_match = "size_match" ->
         IF v.type = "Array" THEN LiteralPreOrder(m, VInt(Len(v.a)), depth, id) ELSE <<>>
    [] OTHER -> <<>>

EvaluationPreOrder(m, v, depth, id) ==
  (IF m.match = "traced_match" /\ m.trace_stack = id
   THEN <<RecordedEntry(m, v, depth)>> ELSE <<>>)
    \o SubEvaluations(m, v, depth + 1, id)

\* C25: the lines of a trace are the entries the traced evaluation recorded,
\* each once, in pre-order: an entry, whose level is the depth of its node in
\* the tree, is followed by the entries of the evaluations it invoked, in the
\* order in which it invoked them, before the next entry of its level or of
\* a smaller one.
C25_TraceIsPreOrder ==
  [][op' = "trace" =>
       printed' = EvaluationPreOrder(mongory_matcher_enable_trace(matcher, trace_count'),
                                     record', 0, trace_count')]_vars

\* A Condition of two fields has matched: the entry of the second field
\* follows the entry of the delegate of the first.
C25_Witness ==
  /\ op = "trace"
  /\ matcher.name = "Condition"
  /\ result
  /\ Len(printed) = 5
  /\ printed[3].level = 2
  /\ printed[4].level = 1
  /\ printed[4].name = "Field"

\* C26: when two evaluations of a compiled tree run at the same time on
\* Array records, the array_record child of a Literal-wrapper is constructed
\* once and stored once: the two evaluations never both find the pointer
\* unset and both construct a child.
C26_ConstructedOnce ==
  /\ literal.constructed <= 1
  /\ literal.published <= 1
  /\ ~(\A t \in Evaluators : threads[t].pc \in {"new", "store"})

\* The node without its children: its match function, condition, priority,
\* name and the rest of its own fields.
Childless(m) ==
  [m EXCEPT !.children = <<>>, !.delegate_matcher = NoMatcher,
            !.array_record_matcher = NoMatcher]

\* The tree after is the tree before but for array_record children that
\* were unset before: every node keeps its own fields, its child list and
\* its delegate, and an array_record child that was set is still the same
\* child, itself kept in this sense.
RECURSIVE TreeKept(_, _)
TreeKept(before, after) ==
  IF before = NoMatcher \/ after = NoMatcher THEN before = after
  ELSE /\ Childless(before) = Childless(after)
       /\ Len(before.children) = Len(after.children)
       /\ \A i \in 1..Len(before.children) :
            TreeKept(before.children[i], after.children[i])
       /\ TreeKept(before.delegate_matcher, after.delegate_matcher)
       /\ before.array_record_matcher # NoMatcher =>
            TreeKept(before.array_record_matcher, after.array_record_matcher)

\* C27: a match without tracing leaves the match function, condition,
\* priority, child list and delegate of every node as they were; all it
\* writes to the tree is the array_record child of a Literal-wrapper that had
\* none, and an array_record child that is set is neither replaced nor
\* cleared by a later match.
C27_MatchWritesArrayRecordOnly ==
  [][op' = "match" => TreeKept(matcher, matcher')]_vars

\* The match has built the array_record child of a Field inside an
\* array_record child that an earlier match had built.
C27_Witness ==
  /\ op = "match"
  /\ matcher.name = "Field"
  /\ matcher.array_record_matcher # NoMatcher
  /\ ArrayRecordBuilt(matcher.array_record_matcher)

\* The traversal with the callback of enable_trace marks the nodes it
\* visits with the stack it is given.
Visited(m, id) == m.match = "traced_match" /\ m.trace_stack = id

\* The node, its children, its delegate and the nodes below them are
\* visited: the nodes the tree has had since it was compiled.
RECURSIVE DelegatesVisited(_, _)
DelegatesVisited(m, id) ==
  \/ m = NoMatcher
  \/ /\ Visited(m, id)
     /\ \A i \in 1..Len(m.children) : DelegatesVisited(m.children[i], id)
     /\ DelegatesVisited(m.delegate_matcher, id)

\* Every node of the tree is visited, the array_record children that have
\* been constructed and the nodes below them included.
RECURSIVE VisitedThroughout(_, _)
VisitedThroughout(m, id) ==
  \/ m = NoMatcher
  \/ /\ Visited(m, id)
     /\ \A i \in 1..Len(m.children) : VisitedThroughout(m.children[i], id)
     /\ VisitedThroughout(m.delegate_matcher, id)
     /\ VisitedThroughout(m.array_record_matcher, id)

\* C28: traverse visits the node and then all of its children: every child
\* of a Composite, and of a Literal-wrapper the delegate and, once it is
\* constructed, the array_record child; whatever records have been matched
\* before, the nodes of the delegate subtrees are all visited.
C28_TraverseVisitsEveryChild ==
  matcher # NoMatcher =>
    /\ VisitedThroughout(mongory_matcher_enable_trace(matcher, 1), 1)
    /\ DelegatesVisited(mongory_matcher_enable_trace(matcher, 1), 1)

\* The same of a tree no record has been matched against.
C28_TraverseVisitsEveryChildAsCompiled ==
  (matcher # NoMatcher /\ ~ArrayRecordBuilt(matcher)) =>
    VisitedThroughout(mongory_matcher_enable_trace(matcher, 1), 1)

\* The block lies inside the chunk it was taken from.
InsideChunk(block) == block.offset + block.size <= pool.chunks[block.chunk].size

\* Two blocks of one chunk share no byte.
Disjoint(b, c) ==
  b.chunk # c.chunk \/ b.offset + b.size <= c.offset \/ c.offset + c.size <= b.offset

\* C29: after any alloc and reset calls every chunk of the arena has
\* used <= size, and every block alloc has returned since the last reset
\* lies inside one chunk and overlaps no other such block.
C29_BlocksInsideChunks ==
  /\ \A i \in 1..Len(pool.chunks) : pool.chunks[i].used <= pool.chunks[i].size
  /\ \A i \in 1..Len(blocks) : InsideChunk(blocks[i])
  /\ \A i, j \in 1..Len(blocks) : i < j => Disjoint(blocks[i], blocks[j])

\* The same as long as the current chunk is the one linked last, as it is
\* until the first reset of an arena of more than one chunk.
C29_BlocksInsideChunksOfLastChunk ==
  [][(C29_BlocksInsideChunks /\ op' = "alloc" /\ pool.current = Len(pool.chunks))
       => C29_BlocksInsideChunks']_vars

\* C30: once a failed compile has recorded an error on a pool, every later
\* compile on that pool returns no matcher, for a valid query too, and
\* leaves the error that was recorded first as it is; reset() leaves it as
\* well, and a compile succeeds again once the host has cleared it.
C30_ErrorIsSticky ==
  [][/\ (op' = "compile" /\ pool_error # NoError) =>
          (matcher' = NoMatcher /\ pool_error' = pool_error)
     /\ op' = "pool_reset" => pool_error' = pool_error
     /\ (op' = "compile" /\ pool_error = NoError /\ query' \in ValidQueries) =>
          (matcher' # NoMatcher /\ pool_error' = NoError)]_vars

\* A valid query has been refused on a pool that holds the error of $and
\* given an Int.
C30_Witness ==
  /\ op = "compile"
  /\ query \in ValidQueries
  /\ matcher = NoMatcher
  /\ pool_error = mongory_error(MONGORY_ERROR_INVALID_ARGUMENT, "needs Array")

====
